---- MODULE Spec2Model ----
(***************************************************************************)
(* Notebook/kernel synchronisation layer of the Jupyter MCP server.        *)
(*                                                                         *)
(* Three representations of one notebook are modelled: the document stored *)
(* by the remote Jupyter service (server), the canonical in-memory         *)
(* nbformat document (notebook) and the collaborative mirror (ydoc).  The  *)
(* tool operations of tools.py and NotebookManager.initialize() run as     *)
(* coroutines of one event loop; a coroutine is interrupted only where the *)
(* code awaits the remote service, the kernel channel or the lock.         *)
(***************************************************************************)
EXTENDS Integers, Sequences, FiniteSets, TLC

\* ------------------------------------------------------------------ bounds
NProcs == 2      \* concurrently invoked coroutines
NQueueProcs == 3 \* ... when the admission order of the lock is examined
MaxQueueCalls == 4 \* ... and the operations they invoke
MaxSyncCalls == 5 \* calls when the manager's primitives are called directly
MaxSyncCells == 3 \* ... and the cells the caller lets the document grow to
MaxIndex == 1     \* largest cell index a caller passes
MaxRecv == 2      \* messages one execution reads from the kernel channel
MaxRecvKernel == 3 \* ... when the receive loop is examined on its own
MaxSeqCalls == 4  \* operations one caller invokes one after another
MaxKernelCalls == 2 \* ... when the receive loop is examined on its own
MaxExt == 1       \* writes by an external party
MaxCalls == 3     \* operations invoked in one behaviour

Procs == 1..NQueueProcs
Callers == 1..NProcs
Sources == {"a", "b"}
Indices == (-1)..MaxIndex

ToolOps == {"add_markdown_cell", "add_code_cell_and_execute", "execute_cell",
            "get_all_cells", "update_cell", "delete_cell", "clear_all_outputs"}
MutatingOps == ToolOps \ {"get_all_cells"}
ExecOps == {"add_code_cell_and_execute", "execute_cell"}
Ops == ToolOps \cup {"initialize"}

\* ------------------------------------------------------- messages (tools.py)
MarkdownAdded == "Markdown cell added successfully"
OutputsCleared == "All outputs cleared successfully"
NoOutput == "Cell executed successfully with no output"
NotCodeCell == "Error: Can only execute code cells"
CellUpdated(i) == "Cell " \o ToString(i) \o " updated successfully"
CellDeleted(i) == "Cell " \o ToString(i) \o " deleted successfully"
IndexOutOfRange(i) == "Error: Cell index " \o ToString(i) \o " out of range"

\* ------------------------------------------------------------ notebook data
\* A dictionary is a function from its keys; a document is either absent
\* (None in memory, 404 on the service) or present with its ordered cells.
NoDoc == [present |-> FALSE, cells |-> <<>>]
Doc(cs) == [present |-> TRUE, cells |-> cs]

new_markdown_cell(s) == [cell_type |-> "markdown", source |-> s]
new_code_cell(s) == [cell_type |-> "code", source |-> s, outputs |-> <<>>]
new_notebook == Doc(<<>>)

StreamOut(t) == [output_type |-> "stream", name |-> "stdout", text |-> t]
WithTransient(o) == [k \in DOMAIN o \cup {"transient"} |->
                       IF k = "transient" THEN "display_id" ELSE o[k]]

MapSeq(s, F(_)) == [i \in 1..Len(s) |-> F(s[i])]
InSeq(x, s) == \E k \in 1..Len(s) : s[k] = x

\* Variant: the cleaning drops the outputs of a cell altogether.
CleanCellNoOutputs(c) ==
    IF "outputs" \in DOMAIN c THEN [c EXCEPT !["outputs"] = <<>>] ELSE c

\* Variant: the output keeps every key.
CleanOutputKept(o) == o

\* utils.clean_notebook_for_nbformat: a deep copy in which every output of
\* every cell that has outputs lost its top-level "transient" key.
CleanOutput(o) == [k \in DOMAIN o \ {"transient"} |-> o[k]]
CleanCell(c) ==
    IF "outputs" \in DOMAIN c
    THEN [c EXCEPT !["outputs"] = MapSeq(c["outputs"], CleanOutput)]
    ELSE c
clean_notebook_for_nbformat(cs) == MapSeq(cs, CleanCell)

\* Variant: the keys are deleted in the dictionary passed in.
InputAfterCleanShared(cs) == MapSeq(cs, CleanCell)

\* `cleaned = copy.deepcopy(notebook_dict)`: the deletions are made in the
\* copy, so the dictionary passed in is afterwards what it was.
InputAfterClean(cs) == cs

\* Python list indexing: 0 <= i < n is position i, -n <= i < 0 counts from
\* the end, anything else raises IndexError.
PyInRange(i, n) == -n <= i /\ i < n
PyPos(i, n) == IF i >= 0 THEN i + 1 ELSE n + i + 1
RemoveAt(s, k) == [j \in 1..(Len(s) - 1) |-> IF j < k THEN s[j] ELSE s[j + 1]]

\* Variant: an index equal to the cell count passes.
ValidateFailsAbove(i, cs) == i > Len(cs)

\* tools._validate_cell_index: only the upper bound is compared.
ValidateFails(i, cs) == i >= Len(cs)

\* ------------------------------------------------------------------- state
VARIABLES
    server,      \* notebook stored by the remote service (NoDoc: 404)
    notebook,    \* NotebookManager.notebook
    ydoc,        \* NotebookManager.ydoc
    locked,      \* asyncio.Lock._locked
    waiters,     \* asyncio.Lock._waiters, in arrival order
    pc,          \* where each coroutine is suspended
    op,          \* the operation a coroutine runs
    arg,         \* its arguments
    loc,         \* its local variables
    trace,       \* steps the running operation has performed so far
    ret,         \* what the operation that returned in the last step returned
    serial,      \* committed operations applied one after another
    failed,      \* "no", or an operation raised: "clean" before it mutated
                 \* the canonical document, "dirty" after
    gone,        \* the cells expected since the last successful delete_cell
    sessions,    \* sessions the remote service lists
    available_kernels, \* KernelManager.available_kernels, in dict order
    default_kernel, \* KernelManager.default_kernel ("" is None)
    kernel_name, \* config.kernel_name ("" is not set)
    advertised,  \* the last reply to GET /api/kernelspecs
    channel,     \* per coroutine: is its kernel channel open
    received,    \* per coroutine: messages its receive loop has read
    nExec,       \* msg_ids generated so far
    nExt,        \* writes by the external party so far
    nCalls       \* operations invoked so far

vars == <<server, notebook, ydoc, locked, waiters, pc, op, arg, loc, trace,
          ret, serial, failed, gone, sessions, available_kernels, default_kernel,
          kernel_name, advertised, channel, received,
          nExec, nExt, nCalls>>

NoArg == [index |-> 0, text |-> ""]
NoLoc == [cell_index |-> 0, msg_id |-> 0, raw |-> <<>>, outputs |-> <<>>,
          extracted |-> <<>>, waited |-> FALSE, base |-> <<>>,
          session |-> <<>>, status |-> 0, code |-> "", fetched |-> <<>>]
NoRet == [proc |-> 0, op |-> "", arg |-> NoArg, outcome |-> "none", msg |-> "",
          list |-> <<>>, trace |-> <<>>, waited |-> FALSE, base |-> <<>>,
          outputs |-> <<>>, status |-> 0, code |-> ""]
\* models.AppConfig.kernel_name: KERNEL_NAME is not set.
ConfigKernelName == ""
\* No reply to GET /api/kernelspecs so far.
NoReply == [default |-> "", kernelspecs |-> <<>>]
NoGone == [active |-> FALSE, x |-> <<>>, expect |-> <<>>]

\* The notebook file does not exist yet, or holds a markdown cell and an
\* executed code cell as JupyterLab saved them.
\* The remote service already lists the session of another notebook.
ForeignSession == [id |-> "s0", path |-> "other.ipynb",
                   kernel |-> [id |-> "k0", name |-> "python3"]]

InitialCells ==
    { <<new_markdown_cell("a"),
        [cell_type |-> "code", source |-> "b",
         outputs |-> <<WithTransient(StreamOut("t"))>>]>> }

Init ==
    /\ server \in {NoDoc} \cup {Doc(cs) : cs \in InitialCells}
    /\ notebook = NoDoc
    /\ ydoc = NoDoc
    /\ locked = FALSE
    /\ waiters = <<>>
    /\ pc = [p \in Procs |-> "idle"]
    /\ op = [p \in Procs |-> ""]
    /\ arg = [p \in Procs |-> NoArg]
    /\ loc = [p \in Procs |-> NoLoc]
    /\ trace = [p \in Procs |-> <<>>]
    /\ ret = NoRet
    /\ serial = server
    /\ failed = "no"
    /\ gone = NoGone
    /\ sessions = <<ForeignSession>>
    /\ available_kernels = <<>>
    /\ default_kernel = ""
    /\ kernel_name = ConfigKernelName
    /\ advertised = NoReply
    /\ channel = [p \in Procs |-> FALSE]
    /\ received = [p \in Procs |-> <<>>]
    /\ nExec = 0
    /\ nExt = 0
    /\ nCalls = 0

docVars == <<server, notebook, ydoc>>
kernelVars == <<sessions, available_kernels, default_kernel, kernel_name,
                advertised, channel, received, nExec>>
ghostVars == <<serial, failed, gone, nExt>>

tainted == failed # "no" \/ nExt > 0

\* Variant: acquire() looks at the queue only, not at the lock itself.
CanAcquireIgnoringHolder == waiters = <<>>

\* Variant: acquire() takes a free lock although others are queued.
CanAcquireBarging == ~locked

\* ---------------------------------------------------------- asyncio.Lock
\* acquire() takes the lock without suspending only when it is free and
\* nobody waits; otherwise the caller queues behind the earlier waiters.
CanAcquire == ~locked /\ waiters = <<>>

Entry(o) == IF o = "initialize" THEN "kernelspecs" ELSE "refresh"

ArgsOf(o) ==
    CASE o \in {"add_markdown_cell", "add_code_cell_and_execute"} ->
             {[index |-> 0, text |-> t] : t \in Sources}
      [] o \in {"execute_cell", "delete_cell"} ->
             {[index |-> i, text |-> ""] : i \in Indices}
      [] o = "update_cell" ->
             {[index |-> i, text |-> t] : i \in Indices, t \in Sources}
      [] OTHER -> {NoArg}

\* A coroutine starts an operation: `async with notebook_manager._lock`.
\* The tools are served once startup() has run initialize().
Call(p, o, a) ==
    /\ pc[p] = "idle"
    /\ o \in ToolOps => ydoc.present
    /\ nCalls' = nCalls + 1
    /\ op' = [op EXCEPT ![p] = o]
    /\ arg' = [arg EXCEPT ![p] = a]
    /\ ret' = NoRet
    /\ IF CanAcquire
       THEN /\ locked' = TRUE
            /\ pc' = [pc EXCEPT ![p] = Entry(o)]
            /\ trace' = [trace EXCEPT ![p] = <<"acquire">>]
            /\ UNCHANGED waiters
            /\ UNCHANGED loc
       ELSE /\ waiters' = Append(waiters, p)
            /\ pc' = [pc EXCEPT ![p] = "wait"]
            /\ loc' = [loc EXCEPT ![p].waited = TRUE]
            /\ UNCHANGED <<locked, trace>>
    /\ UNCHANGED <<docVars, kernelVars, ghostVars>>

\* release() woke the first waiter; it resumes and takes the lock.
Wake(p) ==
    /\ pc[p] = "wait"
    /\ ~locked
    /\ waiters # <<>>
    /\ Head(waiters) = p
    /\ locked' = TRUE
    /\ waiters' = Tail(waiters)
    /\ pc' = [pc EXCEPT ![p] = Entry(op[p])]
    /\ trace' = [trace EXCEPT ![p] = <<"acquire">>]
    /\ ret' = NoRet
    /\ UNCHANGED <<docVars, kernelVars, ghostVars, op, arg, loc, nCalls>>

\* ----------------------------------------------- steps inside the lock
\* The coroutine goes on to its next await.
Goto(p, next, evs) ==
    /\ pc' = [pc EXCEPT ![p] = next]
    /\ trace' = [trace EXCEPT ![p] = @ \o evs]
    /\ ret' = NoRet
    /\ UNCHANGED <<locked, waiters, op, arg, nCalls>>

\* Leaving the `async with` block, by return or by exception, releases the
\* lock; leaving `async with websockets.connect(...)` closes the channel.
\* Variant: an exception leaves the lock held.
LockAfterHeldOnRaise(outcome) == outcome = "raise"

\* `async with notebook_manager._lock`: the block is left, by return or by
\* exception, through release(), which clears the lock.
LockAfter(outcome) == FALSE

\* Variant: the channel is left as it is.
ClosedChannelLeak(p) == channel

\* Leaving `async with websockets.connect(ws_url) as ws`, by return or by
\* exception, closes the channel.
ClosedChannel(p) == [channel EXCEPT ![p] = FALSE]

Leave(p, outcome, msg, list, evs) ==
    /\ pc' = [pc EXCEPT ![p] = "idle"]
    /\ op' = [op EXCEPT ![p] = ""]
    /\ arg' = [arg EXCEPT ![p] = NoArg]
    /\ loc' = [loc EXCEPT ![p] = NoLoc]
    /\ trace' = [trace EXCEPT ![p] = <<>>]
    /\ channel' = ClosedChannel(p)
    /\ received' = [received EXCEPT ![p] = <<>>]
    /\ ret' = [proc |-> p, op |-> op[p], arg |-> arg[p], outcome |-> outcome,
               msg |-> msg, list |-> list,
               trace |-> trace[p] \o evs \o <<"release">>,
               waited |-> loc[p].waited, base |-> loc[p].base,
               outputs |-> loc[p].outputs, status |-> loc[p].status,
               code |-> loc[p].code]
    /\ locked' = LockAfter(outcome)
    /\ UNCHANGED <<waiters, nCalls>>

Raise(p, err, evs) ==
    /\ Leave(p, "raise", err, <<>>, evs)
    /\ failed' = IF failed = "dirty" \/ InSeq("mutate", trace[p] \o evs)
                 THEN "dirty" ELSE "clean"
    /\ serial' = NoDoc
    /\ gone' = NoGone
    /\ UNCHANGED nExt

kernRest == <<sessions, available_kernels, default_kernel, kernel_name,
              advertised, nExec>>
chanVars == <<channel, received>>

\* A return that saved nothing (a string result, or the listing).
ReturnOk(p, msg, list, evs) ==
    /\ Leave(p, "ok", msg, list, evs)
    /\ UNCHANGED ghostVars

\* Variant: the refresh adds the fetched cells to those in memory.
RefreshedDocMerged(content) ==
    Doc(notebook.cells \o clean_notebook_for_nbformat(content.cells))

\* Variant: a notebook without cells is taken for no notebook.
RefreshedDocOrNone(content) ==
    IF content.cells = <<>> THEN NoDoc
    ELSE Doc(clean_notebook_for_nbformat(content.cells))

\* Variant: the refresh keeps a document that is already loaded.
RefreshedDocCached(content) ==
    IF notebook.present THEN notebook
    ELSE Doc(clean_notebook_for_nbformat(content.cells))

\* Variant: the mirror is left as it is.
SyncedYdocStale == ydoc

\* ------------------------------------------- NotebookManager primitives
\* refresh_from_server: GET the contents, replace the canonical document by
\* the cleaned content and set the mirror from it.  A 404 and every other
\* non-200 status raise NotebookError before anything is assigned.
RefreshedDoc(content) == Doc(clean_notebook_for_nbformat(content.cells))

\* Variant: a refresh that fails leaves an empty notebook in memory.
NotebookAfterFailedFetchEmptied == Doc(<<>>)

\* get_notebook_content raises before `self.notebook = ...` is reached.
NotebookAfterFailedFetch == notebook

RefreshFromServer(p) ==
    /\ pc[p] = "refresh"
    /\ \/ /\ server.present
          /\ notebook' = RefreshedDoc(server)
          /\ ydoc' = IF ydoc.present THEN notebook' ELSE ydoc
          /\ loc' = [loc EXCEPT ![p].base = server.cells,
                                ![p].fetched = InputAfterClean(server.cells)]
          /\ Goto(p, "body", <<"refresh_from_server">>)
          /\ UNCHANGED <<server, ghostVars, kernRest, chanVars>>
       \/ /\ ~server.present
          /\ Raise(p, "NotebookError", <<"refresh_from_server">>)
          /\ notebook' = NotebookAfterFailedFetch
          /\ UNCHANGED <<server, ydoc, kernRest>>
       \/ /\ Raise(p, "NotebookError", <<"refresh_from_server">>)
          /\ notebook' = NotebookAfterFailedFetch
          /\ UNCHANGED <<server, ydoc, kernRest>>

\* sync_to_ydoc: `if self.ydoc and self.notebook: self.ydoc.set(self.notebook)`
SyncedYdoc == IF ydoc.present /\ notebook.present THEN notebook ELSE ydoc

SyncToYdoc(p) ==
    /\ pc[p] = "sync"
    /\ ydoc' = SyncedYdoc
    /\ Goto(p, "save", <<"sync_to_ydoc">>)
    /\ UNCHANGED <<server, notebook, loc, ghostVars, kernRest, chanVars>>

\* Variant: sync_from_ydoc assigns nothing.
SyncedNotebookStale == notebook

\* sync_from_ydoc: `if self.ydoc: d = self.ydoc.get(); if d: self.notebook =
\* nbformat.from_dict(d)`
SyncedNotebook == IF ydoc.present THEN ydoc ELSE notebook

\* Variant: the extracted values are returned as they are.
ExecResultRaw(extracted) == extracted

\* What each operation returns once its save went through.
ExecResult(extracted) == IF extracted # <<>> THEN extracted ELSE <<NoOutput>>

SuccessMsg(p) ==
    CASE op[p] = "add_markdown_cell" -> MarkdownAdded
      [] op[p] = "update_cell" -> CellUpdated(arg[p].index)
      [] op[p] = "delete_cell" -> CellDeleted(arg[p].index)
      [] op[p] = "clear_all_outputs" -> OutputsCleared
      [] OTHER -> ""

SuccessList(p) ==
    IF op[p] \in ExecOps THEN ExecResult(loc[p].extracted) ELSE <<>>

\* Variant: the outputs are left in place.
ClearOutputsNone(c) == c

\* The effect of one operation on a stored notebook when it runs alone.
ClearOutputs(c) ==
    IF c["cell_type"] = "code" THEN [c EXCEPT !["outputs"] = <<>>] ELSE c

SerialApply(o, a, outs, stored) ==
    LET cs == clean_notebook_for_nbformat(stored)
        n == Len(cs)
        k == PyPos(a.index, n)
    IN CASE o = "add_markdown_cell" -> Append(cs, new_markdown_cell(a.text))
         [] o = "add_code_cell_and_execute" ->
                Append(cs, [new_code_cell(a.text) EXCEPT !["outputs"] = outs])
         [] o = "execute_cell" /\ PyInRange(a.index, n) ->
                [cs EXCEPT ![k] = [@ EXCEPT !["outputs"] = outs]]
         [] o = "update_cell" /\ PyInRange(a.index, n) ->
                [cs EXCEPT ![k] = [@ EXCEPT !["source"] = a.text]]
         [] o = "delete_cell" /\ PyInRange(a.index, n) -> RemoveAt(cs, k)
         [] o = "clear_all_outputs" -> MapSeq(cs, ClearOutputs)
         [] OTHER -> cs

\* What get_all_cells is expected to list from a successful delete_cell on,
\* as long as only cells are added: the cells that were left, then the
\* cells added since.  Any other write ends the expectation.
GoneAfter(p) ==
    LET k == PyPos(arg[p].index, Len(loc[p].base))
        before == clean_notebook_for_nbformat(loc[p].base)
    IN CASE op[p] = "delete_cell" /\ PyInRange(arg[p].index, Len(loc[p].base)) ->
              [active |-> TRUE, x |-> before[k], expect |-> RemoveAt(before, k)]
         [] op[p] = "add_markdown_cell" /\ gone.active ->
              [gone EXCEPT !.expect = Append(@, new_markdown_cell(arg[p].text))]
         [] op[p] = "add_code_cell_and_execute" /\ gone.active ->
              [gone EXCEPT !.expect =
                  Append(@, [new_code_cell(arg[p].text)
                               EXCEPT !["outputs"] = loc[p].outputs])]
         [] OTHER -> NoGone

\* Variant: a document somebody changed since the refresh is left alone.
SavedDocKeepingEdits(p) ==
    IF ~notebook.present \/ server.cells # loc[p].base THEN server ELSE notebook

\* `if self.notebook:` PUT type notebook, content self.notebook: what the
\* service stores afterwards.
SavedDoc(p) == IF notebook.present THEN notebook ELSE server

\* save_notebook_to_server: PUT the whole canonical document.  A status
\* other than 200/201 raises NotebookError; a transport error may strike
\* after the service has stored the document.
SaveNotebook(p) ==
    /\ pc[p] = "save"
    /\ \/ /\ server' = SavedDoc(p)
          /\ Leave(p, "ok", SuccessMsg(p), SuccessList(p), <<"save">>)
          /\ serial' = IF tainted \/ ~serial.present THEN NoDoc
                       ELSE Doc(SerialApply(op[p], arg[p], loc[p].outputs,
                                            serial.cells))
          /\ gone' = GoneAfter(p)
          /\ UNCHANGED <<notebook, ydoc, failed, nExt, kernRest>>
       \/ /\ Raise(p, "NotebookError", <<"save">>)
          /\ UNCHANGED <<docVars, kernRest>>
       \/ /\ server' = SavedDoc(p)
          /\ Raise(p, "ClientError", <<"save">>)
          /\ UNCHANGED <<notebook, ydoc, kernRest>>

\* ------------------------------------------------- output normalisation
Get(d, k, default) == IF k \in DOMAIN d THEN d[k] ELSE default

RECURSIVE Join(_)
Join(lines) ==
    IF lines = <<>> THEN ""
    ELSE IF Len(lines) = 1 THEN lines[1]
    ELSE lines[1] \o "\n" \o Join(Tail(lines))

\* utils.convert_output_dict_to_nbformat; <<>> stands for None.
convert_output_dict_to_nbformat(d) ==
    LET t == Get(d, "output_type", "")
    IN CASE t = "stream" ->
              [output_type |-> "stream", name |-> d["name"], text |-> d["text"]]
         [] t = "display_data" ->
              [output_type |-> "display_data", data |-> d["data"],
               metadata |-> Get(d, "metadata", <<>>)]
         [] t = "execute_result" ->
              [output_type |-> "execute_result",
               execution_count |-> d["execution_count"], data |-> d["data"],
               metadata |-> Get(d, "metadata", <<>>)]
         [] t = "error" ->
              [output_type |-> "error", ename |-> d["ename"],
               evalue |-> d["evalue"], traceback |-> d["traceback"]]
         [] OTHER -> <<>>

\* utils.png_to_image_obj: the Image refers to the file the decoded payload
\* was written to.
png_to_image_obj(b64) == "Image(" \o b64 \o ")"

\* Variant: the plain text is preferred to the HTML.
ExtractDisplayDataPlainFirst(data) ==
    IF "image/png" \in DOMAIN data THEN png_to_image_obj(data["image/png"])
    ELSE IF "text/plain" \in DOMAIN data THEN data["text/plain"]
    ELSE IF "text/html" \in DOMAIN data THEN data["text/html"]
    ELSE ""

\* utils._extract_display_data
ExtractDisplayData(data) ==
    IF "image/png" \in DOMAIN data THEN png_to_image_obj(data["image/png"])
    ELSE IF "text/html" \in DOMAIN data THEN data["text/html"]
    ELSE IF "text/plain" \in DOMAIN data THEN data["text/plain"]
    ELSE ""

\* Variant: the traceback follows the message on the same line.
ExtractErrorOutputOneLine(o) ==
    Get(o, "ename", "Error") \o ": " \o Get(o, "evalue", "")
        \o Join(Get(o, "traceback", <<>>))

\* utils._extract_error_output
ExtractErrorOutput(o) ==
    Get(o, "ename", "Error") \o ": " \o Get(o, "evalue", "") \o "\n"
        \o Join(Get(o, "traceback", <<>>))

\* utils.extract_output_from_cell
extract_output_from_cell(o) ==
    LET t == Get(o, "output_type", "")
    IN IF t \in {"display_data", "execute_result"}
       THEN ExtractDisplayData(Get(o, "data", <<>>))
       ELSE IF t = "stream" THEN Get(o, "text", "")
       ELSE IF t = "error" THEN ExtractErrorOutput(o)
       ELSE ""

NonEmpty(x) == x # ""
NotNone(x) == x # <<>>

\* tools._process_execution_outputs
ProcessedOutputs(raw) ==
    SelectSeq(MapSeq(raw, convert_output_dict_to_nbformat), NotNone)
ExtractedOutputs(outputs) ==
    SelectSeq(MapSeq(outputs, extract_output_from_cell), NonEmpty)

\* Variant: a mutation is followed by the save at once.
AfterMutationNoSync == "save"

\* Variant: the deletion leaves the canonical document as it was.
DeletedCellsKept(cs, i) == cs

\* -------------------------------------------------------- tool operations
\* tools._sync_and_save: a mutation is followed by sync_to_ydoc, then save.
AfterMutation == "sync"

\* Variant: the new cell is inserted in front.
AppendedCellsFront(cs, c) == <<c>> \o cs

\* `notebook_manager.notebook.cells.append(new_cell)`
AppendedCells(cs, c) == Append(cs, c)

AddMarkdownCell(p) ==
    /\ pc[p] = "body"
    /\ op[p] = "add_markdown_cell"
    /\ notebook' = Doc(AppendedCells(notebook.cells,
                                     new_markdown_cell(arg[p].text)))
    /\ Goto(p, AfterMutation, <<"mutate">>)
    /\ UNCHANGED <<server, ydoc, loc, ghostVars, kernRest, chanVars>>

\* Variant: the cell is replaced by a new code cell of the new content.
UpdatedCellsReplaced(cs, i, s) ==
    [cs EXCEPT ![PyPos(i, Len(cs))] = new_code_cell(s)]

UpdatedCells(cs, i, s) ==
    [cs EXCEPT ![PyPos(i, Len(cs))] = [@ EXCEPT !["source"] = s]]

UpdateCell(p) ==
    LET i == arg[p].index
        cs == notebook.cells
    IN /\ pc[p] = "body"
       /\ op[p] = "update_cell"
       /\ \/ /\ ValidateFails(i, cs)
             /\ ReturnOk(p, IndexOutOfRange(i), <<>>, <<>>)
             /\ UNCHANGED <<docVars, kernRest>>
          \/ /\ ~ValidateFails(i, cs)
             /\ ~PyInRange(i, Len(cs))
             /\ Raise(p, "IndexError", <<>>)
             /\ UNCHANGED <<docVars, kernRest>>
          \/ /\ ~ValidateFails(i, cs)
             /\ PyInRange(i, Len(cs))
             /\ notebook' = Doc(UpdatedCells(cs, i, arg[p].text))
             /\ Goto(p, AfterMutation, <<"mutate">>)
             /\ UNCHANGED <<server, ydoc, loc, ghostVars, kernRest, chanVars>>

\* Variant: the deletion pops the last cell.
DeletedCellsLast(cs, i) == SubSeq(cs, 1, Len(cs) - 1)

DeletedCells(cs, i) == RemoveAt(cs, PyPos(i, Len(cs)))

DeleteCell(p) ==
    LET i == arg[p].index
        cs == notebook.cells
    IN /\ pc[p] = "body"
       /\ op[p] = "delete_cell"
       /\ \/ /\ ValidateFails(i, cs)
             /\ ReturnOk(p, IndexOutOfRange(i), <<>>, <<>>)
             /\ UNCHANGED <<docVars, kernRest>>
          \/ /\ ~ValidateFails(i, cs)
             /\ ~PyInRange(i, Len(cs))
             /\ Raise(p, "IndexError", <<>>)
             /\ UNCHANGED <<docVars, kernRest>>
          \/ /\ ~ValidateFails(i, cs)
             /\ PyInRange(i, Len(cs))
             /\ notebook' = Doc(DeletedCells(cs, i))
             /\ Goto(p, AfterMutation, <<"mutate">>)
             /\ UNCHANGED <<server, ydoc, loc, ghostVars, kernRest, chanVars>>

ClearAllOutputs(p) ==
    /\ pc[p] = "body"
    /\ op[p] = "clear_all_outputs"
    /\ notebook' = Doc(MapSeq(notebook.cells, ClearOutputs))
    /\ Goto(p, AfterMutation, <<"mutate">>)
    /\ UNCHANGED <<server, ydoc, loc, ghostVars, kernRest, chanVars>>

CellInfo(cs, k) ==
    [index |-> k - 1, cell_type |-> cs[k]["cell_type"],
     source |-> cs[k]["source"],
     outputs |-> IF cs[k]["cell_type"] = "code" /\ "outputs" \in DOMAIN cs[k]
                 THEN ExtractedOutputs(cs[k]["outputs"]) ELSE <<>>]

Listing(cs) == [k \in 1..Len(cs) |-> CellInfo(cs, k)]

\* Variant: the listing goes on to sync and save.
GetAllCellsSaving(p) ==
    /\ pc[p] = "body"
    /\ op[p] = "get_all_cells"
    /\ Goto(p, AfterMutation, <<>>)
    /\ UNCHANGED <<docVars, loc, ghostVars, kernRest, chanVars>>

GetAllCells(p) ==
    /\ pc[p] = "body"
    /\ op[p] = "get_all_cells"
    /\ ReturnOk(p, "", Listing(notebook.cells), <<>>)
    /\ UNCHANGED <<docVars, kernRest>>

\* Variant: every cell is taken for a code cell.
IsCodeCellAlways(c) == TRUE

\* `cell.cell_type != "code"` in tools._execute_cell_common
IsCodeCell(c) == c["cell_type"] = "code"

\* tools._execute_cell_common up to the call of execute_on_server, on the
\* cells `cs` of the canonical document as the caller left it.
ExecuteCellCommon(p, cs, i, evs) ==
    \/ /\ ValidateFails(i, cs)
       /\ ReturnOk(p, "", <<IndexOutOfRange(i)>>, evs)
    \/ /\ ~ValidateFails(i, cs)
       /\ ~PyInRange(i, Len(cs))
       /\ Raise(p, "IndexError", evs)
    \/ /\ ~ValidateFails(i, cs)
       /\ PyInRange(i, Len(cs))
       /\ ~IsCodeCell(cs[PyPos(i, Len(cs))])
       /\ ReturnOk(p, "", <<NotCodeCell>>, evs)
    \/ /\ ~ValidateFails(i, cs)
       /\ PyInRange(i, Len(cs))
       /\ IsCodeCell(cs[PyPos(i, Len(cs))])
       /\ loc' = [loc EXCEPT ![p].cell_index = i]
       /\ Goto(p, "execute_on_server", evs)
       /\ UNCHANGED <<ghostVars, chanVars>>

AddCodeCellAndExecute(p) ==
    LET cell_index == Len(notebook.cells)
        cs == AppendedCells(notebook.cells, new_code_cell(arg[p].text))
    IN /\ pc[p] = "body"
       /\ op[p] = "add_code_cell_and_execute"
       /\ notebook' = Doc(cs)
       /\ ExecuteCellCommon(p, cs, cell_index, <<"mutate">>)
       /\ UNCHANGED <<server, ydoc, kernRest>>

ExecuteCell(p) ==
    /\ pc[p] = "body"
    /\ op[p] = "execute_cell"
    /\ ExecuteCellCommon(p, notebook.cells, arg[p].index, <<>>)
    /\ UNCHANGED <<docVars, kernRest>>

\* --------------------------------------------------------- KernelManager
NotebookPath == "notebook.ipynb"

\* NotebookManager.execute_on_server, down to the session lookup.
ExecuteOnServer(p) ==
    /\ pc[p] = "execute_on_server"
    /\ IF ~notebook.present \/ loc[p].cell_index >= Len(notebook.cells)
       THEN /\ Raise(p, "NotebookError", <<>>)
            /\ UNCHANGED <<docVars, kernRest>>
       ELSE /\ Goto(p, "sessions", <<>>)
            /\ UNCHANGED <<docVars, loc, ghostVars, kernRest, chanVars>>

\* KernelManager.get_kernel_name
get_kernel_name ==
    IF kernel_name # "" THEN kernel_name
    ELSE IF default_kernel # "" THEN default_kernel ELSE "python3"

\* Variant: the lookup never finds a session.
MatchingSessionsNone == <<>>

MatchingSessions == SelectSeq(sessions, LAMBDA s : s.path = NotebookPath)

\* (session_id, kernel_id) as get_or_create_session returns them.
SessionIds(session) == <<session.id, session.kernel.id>>
NewSession(n) == [id |-> "s" \o ToString(n), path |-> NotebookPath,
                  kernel |-> [id |-> "k" \o ToString(n),
                              name |-> get_kernel_name]]

\* KernelManager.get_or_create_session: the answer to GET /api/sessions.
GetSessions(p) ==
    /\ pc[p] = "sessions"
    /\ \/ /\ IF MatchingSessions # <<>>
             THEN /\ loc' = [loc EXCEPT
                               ![p].session = SessionIds(MatchingSessions[1])]
                  /\ Goto(p, "connect", <<"get_sessions">>)
             ELSE /\ Goto(p, "create", <<"get_sessions">>)
                  /\ UNCHANGED loc
          /\ UNCHANGED <<docVars, ghostVars, kernRest, chanVars>>
       \/ /\ Raise(p, "KernelError", <<"get_sessions">>)
          /\ UNCHANGED <<docVars, kernRest>>

\* ... and the answer to POST /api/sessions when none matched.
CreateSession(p) ==
    /\ pc[p] = "create"
    /\ \/ /\ sessions' = Append(sessions, NewSession(Len(sessions)))
          /\ loc' = [loc EXCEPT
                       ![p].session = SessionIds(NewSession(Len(sessions)))]
          /\ Goto(p, "connect", <<"create_session">>)
          /\ UNCHANGED <<docVars, ghostVars, available_kernels,
                         default_kernel, kernel_name, advertised, nExec,
                         chanVars>>
       \/ /\ Raise(p, "KernelError", <<"create_session">>)
          /\ UNCHANGED <<docVars, kernRest>>

\* Variant: the code of the first cell is sent.
CodeToExecuteFirst(i) == notebook.cells[1]["source"]

\* `code = self.notebook.cells[cell_index].source` in execute_on_server
CodeToExecute(i) == notebook.cells[PyPos(i, Len(notebook.cells))]["source"]

\* Variant: a request carries the msg_id of the request before it.
FreshMsgIdReused == IF nExec = 0 THEN 1 ELSE nExec

\* `msg_id = str(uuid.uuid4())`: an id no earlier request had.
FreshMsgId == nExec + 1

\* KernelManager.execute_code: open the channel and draw a fresh msg_id;
\* the request carries the code.
\* websockets.connect raises WebSocketException (wrapped in KernelError) or
\* an OSError such as a refused connection, which is not caught.
WsConnect(p) ==
    /\ pc[p] = "connect"
    /\ \/ /\ channel' = [channel EXCEPT ![p] = TRUE]
          /\ nExec' = nExec + 1
          /\ loc' = [loc EXCEPT ![p].msg_id = FreshMsgId,
                                ![p].code = CodeToExecute(loc[p].cell_index)]
          /\ Goto(p, "send", <<"ws_connect">>)
          /\ UNCHANGED <<docVars, ghostVars, sessions, available_kernels,
                         default_kernel, kernel_name, advertised, received>>
       \/ /\ \E err \in {"KernelError", "OSError"} :
                Raise(p, err, <<"ws_connect">>)
          /\ UNCHANGED <<docVars, kernRest>>

WsSend(p) ==
    /\ pc[p] = "send"
    /\ \/ /\ Goto(p, "recv", <<"ws_send">>)
          /\ UNCHANGED <<docVars, loc, ghostVars, kernRest, chanVars>>
       \/ /\ Raise(p, "KernelError", <<"ws_send">>)
          /\ UNCHANGED <<docVars, kernRest>>

\* A message on the kernel channel.  Generated msg_ids are 1, 2, ...;
\* par = 0 is the msg_id of somebody else's request, par < 0 a parent
\* header without msg_id.
MsgContent(t, text) ==
    CASE t = "stream" -> [name |-> "stdout", text |-> text]
      [] t = "display_data" ->
             [data |-> [k \in {"text/plain"} |-> text], metadata |-> <<>>,
              transient |-> "display_id"]
      [] t = "execute_result" ->
             [execution_count |-> 1, data |-> [k \in {"text/plain"} |-> text],
              metadata |-> <<>>]
      [] t = "error" ->
             [ename |-> "NameError", evalue |-> text, traceback |-> <<"tb">>]
      [] t = "execute_reply" -> [status |-> "ok"]
      [] OTHER -> [execution_state |-> "idle"]

KernelMsg(t, par, text) ==
    [header |-> [msg_type |-> t],
     parent_header |-> IF par < 0 THEN <<>> ELSE [msg_id |-> par],
     content |-> MsgContent(t, text)]

MsgTypes == {"stream", "display_data", "execute_result", "error",
             "execute_reply", "status"}
OutputTypes == {"stream", "display_data", "execute_result", "error"}

\* One pass of the loop of KernelManager._collect_outputs.
OutputOf(msg) ==
    LET t == msg.header.msg_type
        c == msg.content
    IN CASE t = "stream" ->
              [output_type |-> "stream", name |-> c["name"], text |-> c["text"]]
         [] t = "display_data" ->
              [output_type |-> "display_data", data |-> c["data"],
               metadata |-> c["metadata"]]
         [] t = "execute_result" ->
              [output_type |-> "execute_result",
               execution_count |-> c["execution_count"], data |-> c["data"],
               metadata |-> c["metadata"]]
         [] OTHER ->
              [output_type |-> "error", ename |-> c["ename"],
               evalue |-> c["evalue"], traceback |-> c["traceback"]]

\* Variants of the loop: no parent check; newest output first.
SkippedNever(msg, msg_id) == FALSE
CollectedFront(outputs, msg) == <<OutputOf(msg)>> \o outputs

Skipped(msg, msg_id) == Get(msg.parent_header, "msg_id", -1) # msg_id
Appends(msg) == msg.header.msg_type \in OutputTypes
Breaks(msg) == msg.header.msg_type = "execute_reply"
Collected(outputs, msg) == Append(outputs, OutputOf(msg))

Recv(p, msg, limit) ==
    /\ pc[p] = "recv"
    /\ Len(received[p]) < limit
    /\ received' = [received EXCEPT ![p] = Append(@, msg)]
    /\ IF Skipped(msg, loc[p].msg_id)
       THEN /\ Goto(p, "recv", <<>>)
            /\ UNCHANGED <<loc, channel>>
       ELSE IF Appends(msg)
       THEN /\ Goto(p, "recv", <<>>)
            /\ loc' = [loc EXCEPT ![p].raw = Collected(@, msg)]
            /\ UNCHANGED channel
       ELSE IF Breaks(msg)
       THEN /\ Goto(p, "process", <<"execute_reply">>)
            /\ channel' = ClosedChannel(p)
            /\ UNCHANGED loc
       ELSE /\ Goto(p, "recv", <<>>)
            /\ UNCHANGED <<loc, channel>>
    /\ UNCHANGED <<docVars, ghostVars, kernRest>>

\* ws.recv() raises ConnectionClosed, a WebSocketException.
RecvFail(p) ==
    /\ pc[p] = "recv"
    /\ Raise(p, "KernelError", <<>>)
    /\ UNCHANGED <<docVars, kernRest>>

\* Back in _execute_cell_common: the outputs are converted and assigned to
\* the executed cell (attribute assignment adds the key when it is missing).
\* Variant: the value is appended to the one already there.
SetKeyAppending(d, key, v) ==
    [k \in DOMAIN d \cup {key} |->
        IF k = key THEN (IF key \in DOMAIN d THEN d[key] \o v ELSE v) ELSE d[k]]

SetKey(d, key, v) == [k \in DOMAIN d \cup {key} |-> IF k = key THEN v ELSE d[k]]

ProcessOutputs(p) ==
    LET outputs == ProcessedOutputs(loc[p].raw)
        cs == notebook.cells
        i == loc[p].cell_index
    IN /\ pc[p] = "process"
       /\ IF PyInRange(i, Len(cs))
          THEN /\ notebook' = Doc([cs EXCEPT ![PyPos(i, Len(cs))] =
                                      SetKey(@, "outputs", outputs)])
               /\ loc' = [loc EXCEPT ![p].outputs = outputs,
                                     ![p].extracted = ExtractedOutputs(outputs)]
               /\ Goto(p, AfterMutation, <<"mutate">>)
               /\ UNCHANGED <<ghostVars, chanVars>>
          ELSE /\ Raise(p, "IndexError", <<>>)
               /\ UNCHANGED notebook
       /\ UNCHANGED <<server, ydoc, kernRest>>

\* ------------------------------------------------------------ initialize
KernelspecReplies ==
    { [default |-> "python3", kernelspecs |-> <<"python3">>] }

\* Variant: python3 is preferred to the default the service advertises.
ChosenDefaultPython(data) ==
    IF default_kernel = "" /\ data.kernelspecs # <<>>
    THEN IF InSeq("python3", data.kernelspecs) THEN "python3"
         ELSE IF data.default # "" /\ InSeq(data.default, data.kernelspecs)
         THEN data.default
         ELSE data.kernelspecs[1]
    ELSE default_kernel

\* KernelManager.initialize_kernels, on the reply `data`.
ChosenDefault(data) ==
    IF default_kernel = "" /\ data.kernelspecs # <<>>
    THEN IF data.default # "" /\ InSeq(data.default, data.kernelspecs)
         THEN data.default
         ELSE IF InSeq("python3", data.kernelspecs) THEN "python3"
         ELSE data.kernelspecs[1]
    ELSE default_kernel

InitializeKernelsWith(p, replies) ==
    /\ pc[p] = "kernelspecs"
    /\ \/ /\ \E data \in replies :
                /\ available_kernels' = data.kernelspecs
                /\ default_kernel' = ChosenDefault(data)
                /\ advertised' = data
          /\ Goto(p, "load", <<"get_kernelspecs">>)
          /\ UNCHANGED <<docVars, loc, ghostVars, sessions, kernel_name, nExec,
                         chanVars>>
       \/ /\ Raise(p, "KernelError", <<"get_kernelspecs">>)
          /\ UNCHANGED <<docVars, kernRest>>

InitializeKernels(p) == InitializeKernelsWith(p, KernelspecReplies)

\* JupyterServerClient.get_notebook_content: the status the service
\* answers with, and the NotebookError raised for a status other than 200.
FetchStatuses == IF server.present THEN {200, 500} ELSE {404, 500}
FetchError(status) ==
    IF status = 404 THEN "Notebook not found: " \o NotebookPath
    ELSE "Failed to access notebook: " \o ToString(status)

\* Variant: every failed fetch is taken for a missing notebook.
IsNotFoundAlways(e) == TRUE

\* `"not found" in str(e)`
IsNotFound(e) == e = "Notebook not found: " \o NotebookPath

\* JupyterServerClient: what each request method does with the status of
\* the response.  `text` is str(e) of the exception raised.
Returned == [outcome |-> "ok", error |-> "", text |-> ""]
Raised(error, text) == [outcome |-> "raise", error |-> error, text |-> text]

\* Variant: the save accepts a 200 alone.
save_notebook_content_200(status) ==
    IF status = 200 THEN Returned
    ELSE Raised("NotebookError", "Failed to save notebook: " \o ToString(status))

get_kernelspecs(status) ==
    IF status = 200 THEN Returned
    ELSE Raised("KernelError", "Failed to get kernelspecs: " \o ToString(status))

get_notebook_content(status) ==
    IF status = 200 THEN Returned
    ELSE Raised("NotebookError", FetchError(status))

save_notebook_content(status) ==
    IF status \notin {200, 201}
    THEN Raised("NotebookError", "Failed to save notebook: " \o ToString(status))
    ELSE Returned

get_sessions(status) ==
    IF status = 200 THEN Returned
    ELSE Raised("KernelError", "Failed to get sessions: " \o ToString(status))

create_session(status) ==
    IF status \in {200, 201} THEN Returned
    ELSE Raised("KernelError", "Failed to create session: " \o ToString(status))

\* NotebookManager._load_or_create_notebook: only the 404 is recovered.
LoadOrCreateNotebook(p) ==
    /\ pc[p] = "load"
    /\ \E status \in FetchStatuses :
          IF status = 200
          THEN /\ notebook' = RefreshedDoc(server)
               /\ loc' = [loc EXCEPT ![p].status = status,
                                     ![p].base = server.cells,
                                     ![p].fetched = InputAfterClean(server.cells)]
               /\ Goto(p, "init_ydoc", <<"get_notebook_content">>)
               /\ UNCHANGED <<server, ydoc, ghostVars, kernRest, chanVars>>
          ELSE IF IsNotFound(FetchError(status))
          THEN /\ notebook' = new_notebook
               /\ loc' = [loc EXCEPT ![p].status = status]
               /\ Goto(p, "init_save", <<"get_notebook_content">>)
               /\ UNCHANGED <<server, ydoc, ghostVars, kernRest, chanVars>>
          ELSE /\ Raise(p, FetchError(status), <<"get_notebook_content">>)
               /\ UNCHANGED <<docVars, kernRest>>

\* ... the save of the notebook it created.
SaveCreatedNotebook(p) ==
    /\ pc[p] = "init_save"
    /\ \/ /\ server' = notebook
          /\ serial' = IF tainted THEN NoDoc ELSE notebook
          /\ gone' = NoGone
          /\ Goto(p, "init_ydoc", <<"save">>)
          /\ UNCHANGED <<notebook, ydoc, loc, failed, nExt, kernRest, chanVars>>
       \/ /\ Raise(p, "NotebookError", <<"save">>)
          /\ UNCHANGED <<docVars, kernRest>>

\* NotebookManager._initialize_ydoc
InitializeYdoc(p) ==
    /\ pc[p] = "init_ydoc"
    /\ ydoc' = IF notebook.present THEN notebook ELSE new_notebook
    /\ ReturnOk(p, "", <<>>, <<"init_ydoc">>)
    /\ UNCHANGED <<server, notebook, kernRest>>

\* ----------------------------------------------------- an external party
\* It adds a cell, deletes or edits the first one, or deletes the file.
ExternalCell == [cell_type |-> "code", source |-> "x",
                 outputs |-> <<WithTransient(StreamOut("t"))>>]

ExternalEdits(cs) ==
    {Doc(Append(cs, ExternalCell)), NoDoc}
      \cup (IF cs = <<>> THEN {}
            ELSE {Doc(Tail(cs)),
                  Doc([cs EXCEPT ![1] = [@ EXCEPT !["source"] = "x"]])})

ExternalWrite ==
    /\ nExt < MaxExt
    /\ server.present
    /\ server' \in ExternalEdits(server.cells) \ {server}
    /\ nExt' = nExt + 1
    /\ serial' = NoDoc
    /\ gone' = NoGone
    /\ UNCHANGED failed
    /\ ret' = NoRet
    /\ UNCHANGED <<notebook, ydoc, locked, waiters, pc, op, arg, loc, trace,
                   kernelVars, nCalls>>

\* ------------------------------------- the primitives, called directly
\* A caller that holds the manager calls refresh_from_server, sync_to_ydoc
\* and sync_from_ydoc itself, one call after another, once initialize()
\* has run.  ret.msg keeps the call that returned just before, if any.
DirectCall(name, outcome) ==
    /\ pc[1] = "idle"
    /\ ~locked
    /\ ydoc.present
    /\ nCalls < MaxSyncCalls
    /\ nCalls' = nCalls + 1
    /\ ret' = [NoRet EXCEPT !.proc = 1, !.op = name, !.outcome = outcome,
                            !.msg = IF ret.outcome = "ok" THEN ret.op ELSE ""]
    /\ UNCHANGED <<server, locked, waiters, pc, op, arg, loc, trace,
                   kernelVars, ghostVars>>

DirectRefresh ==
    \/ /\ server.present
       /\ notebook' = RefreshedDoc(server)
       /\ ydoc' = IF ydoc.present THEN notebook' ELSE ydoc
       /\ DirectCall("refresh_from_server", "ok")
    \/ /\ DirectCall("refresh_from_server", "raise")
       /\ UNCHANGED <<notebook, ydoc>>

DirectSyncToYdoc ==
    /\ ydoc' = SyncedYdoc
    /\ DirectCall("sync_to_ydoc", "ok")
    /\ UNCHANGED notebook

DirectSyncFromYdoc ==
    /\ notebook' = SyncedNotebook
    /\ DirectCall("sync_from_ydoc", "ok")
    /\ UNCHANGED ydoc

\* The caller changes the canonical document in memory, as the tools do.
MutateInMemory ==
    /\ pc[1] = "idle"
    /\ ~locked
    /\ ydoc.present
    /\ nCalls < MaxSyncCalls
    /\ Len(notebook.cells) < MaxSyncCells
    /\ \E s \in Sources :
          notebook' = Doc(Append(notebook.cells, new_markdown_cell(s)))
    /\ nCalls' = nCalls + 1
    /\ ret' = NoRet
    /\ UNCHANGED <<server, ydoc, locked, waiters, pc, op, arg, loc, trace,
                   kernelVars, ghostVars>>

\* ------------------------------------------------------------------- next
ToolMsgs(msg_id) ==
    { KernelMsg("stream", msg_id, "t"), KernelMsg("stream", 0, "t"),
      KernelMsg("execute_reply", msg_id, "") }

AllMsgs(msg_id) ==
    { KernelMsg(t, par, "t") : t \in MsgTypes, par \in (-1)..msg_id }
      \cup { KernelMsg("stream", msg_id, "") }

Next ==
    \/ \E p \in Callers, o \in Ops : \E a \in ArgsOf(o) :
          nCalls < MaxCalls /\ Call(p, o, a)
    \/ \E p \in Callers : Wake(p)
    \/ \E p \in Callers : RefreshFromServer(p)
    \/ \E p \in Callers : AddMarkdownCell(p)
    \/ \E p \in Callers : AddCodeCellAndExecute(p)
    \/ \E p \in Callers : ExecuteCell(p)
    \/ \E p \in Callers : GetAllCells(p)
    \/ \E p \in Callers : UpdateCell(p)
    \/ \E p \in Callers : DeleteCell(p)
    \/ \E p \in Callers : ClearAllOutputs(p)
    \/ \E p \in Callers : ExecuteOnServer(p)
    \/ \E p \in Callers : GetSessions(p)
    \/ \E p \in Callers : CreateSession(p)
    \/ \E p \in Callers : WsConnect(p)
    \/ \E p \in Callers : WsSend(p)
    \/ \E p \in Callers : \E msg \in ToolMsgs(loc[p].msg_id) : Recv(p, msg, MaxRecv)
    \/ \E p \in Callers : RecvFail(p)
    \/ \E p \in Callers : ProcessOutputs(p)
    \/ \E p \in Callers : SyncToYdoc(p)
    \/ \E p \in Callers : SaveNotebook(p)
    \/ \E p \in Callers : InitializeKernels(p)
    \/ \E p \in Callers : LoadOrCreateNotebook(p)
    \/ \E p \in Callers : SaveCreatedNotebook(p)
    \/ \E p \in Callers : InitializeYdoc(p)
    \/ ExternalWrite

Spec == Init /\ [][Next]_vars

\* One caller invoking the operations one after another; nobody else
\* writes to the service.
NextSeq ==
    \/ \E o \in Ops : \E a \in ArgsOf(o) : nCalls < MaxSeqCalls /\ Call(1, o, a)
    \/ RefreshFromServer(1)
    \/ AddMarkdownCell(1)
    \/ AddCodeCellAndExecute(1)
    \/ ExecuteCell(1)
    \/ GetAllCells(1)
    \/ UpdateCell(1)
    \/ DeleteCell(1)
    \/ ClearAllOutputs(1)
    \/ ExecuteOnServer(1)
    \/ GetSessions(1)
    \/ CreateSession(1)
    \/ WsConnect(1)
    \/ WsSend(1)
    \/ \E msg \in ToolMsgs(loc[1].msg_id) : Recv(1, msg, MaxRecv)
    \/ RecvFail(1)
    \/ ProcessOutputs(1)
    \/ SyncToYdoc(1)
    \/ SaveNotebook(1)
    \/ InitializeKernels(1)
    \/ LoadOrCreateNotebook(1)
    \/ SaveCreatedNotebook(1)
    \/ InitializeYdoc(1)

SpecSeq == Init /\ [][NextSeq]_vars

\* One caller executing cells, the kernel channel delivering any message.
KernelOps == {"initialize", "execute_cell", "add_code_cell_and_execute"}

NextKernel ==
    \/ \E o \in KernelOps : \E a \in ArgsOf(o) :
          nCalls < MaxKernelCalls /\ Call(1, o, a)
    \/ RefreshFromServer(1)
    \/ AddCodeCellAndExecute(1)
    \/ ExecuteCell(1)
    \/ ExecuteOnServer(1)
    \/ GetSessions(1)
    \/ CreateSession(1)
    \/ WsConnect(1)
    \/ WsSend(1)
    \/ \E msg \in AllMsgs(loc[1].msg_id) : Recv(1, msg, MaxRecvKernel)
    \/ RecvFail(1)
    \/ ProcessOutputs(1)
    \/ SyncToYdoc(1)
    \/ SaveNotebook(1)
    \/ InitializeKernels(1)
    \/ LoadOrCreateNotebook(1)
    \/ SaveCreatedNotebook(1)
    \/ InitializeYdoc(1)

SpecKernel == Init /\ [][NextKernel]_vars

\* ================================================================ properties
\* A coroutine is between acquiring and releasing the lock.
InCriticalSection(p) == pc[p] \notin {"idle", "wait"}

\* The operation that returned in the last step was a mutating tool
\* operation that went through (it did not return an error string).
IsErrorResult(r) ==
    \/ r.msg = IndexOutOfRange(r.arg.index)
    \/ r.list = <<IndexOutOfRange(r.arg.index)>>
    \/ r.list = <<NotCodeCell>>

Succeeded(r) ==
    r.outcome = "ok" /\ r.op \in MutatingOps /\ ~IsErrorResult(r)

\* cs is base with the top-level "transient" key of every output removed
\* and nothing else changed.
SameButTransient(cs, base) ==
    /\ Len(cs) = Len(base)
    /\ \A k \in 1..Len(base) :
          /\ DOMAIN cs[k] = DOMAIN base[k]
          /\ \A f \in DOMAIN base[k] \ {"outputs"} : cs[k][f] = base[k][f]
          /\ "outputs" \in DOMAIN base[k] =>
                /\ Len(cs[k]["outputs"]) = Len(base[k]["outputs"])
                /\ \A j \in 1..Len(base[k]["outputs"]) :
                      cs[k]["outputs"][j] =
                         [f \in DOMAIN base[k]["outputs"][j] \ {"transient"} |->
                             base[k]["outputs"][j][f]]

\* ------------------------------------------------------------------------
\* C1: mutual exclusion.  Under any interleaving of the tool operations and
\* initialize(), at most one coroutine is between acquiring and releasing
\* the lock, also while it is suspended on a remote call or on the kernel
\* channel; whoever is there holds the lock.
MutualExclusion ==
    /\ \A p, q \in Procs : InCriticalSection(p) /\ InCriticalSection(q) => p = q
    /\ \A p \in Procs : InCriticalSection(p) => locked

\* One coroutine waits on the kernel channel while the other one queues.
MutualExclusionWitness ==
    \E p, q \in Procs :
        /\ pc[p] = "recv"
        /\ pc[q] = "wait"
        /\ waiters = <<q>>

\* ------------------------------------------------------------------------
\* C2: no lost updates.  As long as every operation succeeded and nobody
\* else wrote to the service, the stored notebook is the result of applying
\* the committed operations one after another in the order in which they
\* held the lock.
NoLostUpdates == ~tainted => server = serial

\* Two add_markdown_cell calls were invoked concurrently on the notebook
\* initialize() created; the second one had to wait, and both cells are
\* stored.
NoLostUpdatesWitness ==
    /\ ~tainted
    /\ ret.outcome = "ok"
    /\ ret.op = "add_markdown_cell"
    /\ ret.waited
    /\ Len(server.cells) = 2
    /\ \A k \in 1..2 : server.cells[k]["cell_type"] = "markdown"

\* ------------------------------------------------------------------------
\* The steps of an operation, with the steps of one kernel execution
\* (session lookup, channel, request, replies) taken as one.
KernelEvents == {"get_sessions", "create_session", "ws_connect", "ws_send",
                 "execute_reply"}
RemoteEvents == KernelEvents \cup {"refresh_from_server", "save"}
Phase(ev) == IF ev \in KernelEvents THEN "kernel" ELSE ev
IsRemote(ev) == ev \in RemoteEvents

RECURSIVE Phases(_)
Phases(t) ==
    IF t = <<>> THEN <<>>
    ELSE LET h == Phase(Head(t))
             rest == Phases(Tail(t))
         IN IF h = "kernel" /\ rest # <<>> /\ Head(rest) = "kernel"
            THEN rest ELSE <<h>> \o rest

PlainOrder == <<"acquire", "refresh_from_server", "mutate", "sync_to_ydoc",
                "save", "release">>
StatedKernelOrder == <<"acquire", "refresh_from_server", "mutate", "kernel",
                       "sync_to_ydoc", "save", "release">>
AddCodeOrder == <<"acquire", "refresh_from_server", "mutate", "kernel",
                  "mutate", "sync_to_ydoc", "save", "release">>
ExecuteCellOrder == <<"acquire", "refresh_from_server", "kernel", "mutate",
                      "sync_to_ydoc", "save", "release">>

\* C3 as stated: every successful mutating operation performs exactly
\* acquire, refresh, mutate, (kernel execution), sync, save, release.
ProtocolOrderAsStated ==
    Succeeded(ret) =>
        Phases(ret.trace) = IF ret.op \in ExecOps THEN StatedKernelOrder
                            ELSE PlainOrder

\* C3: protocol order.  Every successful mutating operation acquires the
\* lock, refreshes, and ends with sync_to_ydoc, save, release; the refresh
\* is its first remote call and the save its last.  In between,
\* add markdown / update / delete / clear outputs mutate once;
\* add_code_cell_and_execute appends the cell, runs the kernel and then
\* stores the outputs; execute_cell runs the kernel first and mutates only
\* afterwards, when it stores the outputs.
ProtocolOrder ==
    Succeeded(ret) =>
        LET remote == SelectSeq(ret.trace, IsRemote)
        IN /\ Phases(ret.trace) =
                 CASE ret.op = "add_code_cell_and_execute" -> AddCodeOrder
                   [] ret.op = "execute_cell" -> ExecuteCellOrder
                   [] OTHER -> PlainOrder
           /\ Head(remote) = "refresh_from_server"
           /\ remote[Len(remote)] = "save"
           /\ \A k \in 1..Len(remote) :
                 /\ remote[k] = "refresh_from_server" => k = 1
                 /\ remote[k] = "save" => k = Len(remote)

\* execute_cell went through: its only mutation came after the kernel ran.
ProtocolOrderWitness ==
    /\ Succeeded(ret)
    /\ ret.op = "execute_cell"
    /\ ret.list = <<"t">>

\* ------------------------------------------------------------------------
\* C4: three-representation consistency.  Once initialize() has succeeded,
\* whenever a mutating tool operation completes successfully and releases
\* the lock, the stored notebook, the canonical document and the mirror
\* hold the same ordered cells.
ThreeRepresentations ==
    (Succeeded(ret) /\ ydoc.present) =>
        /\ ~locked
        /\ server.present /\ notebook.present
        /\ server.cells = notebook.cells
        /\ ydoc.cells = notebook.cells

\* add_code_cell_and_execute stored a cell with its output everywhere.
ThreeRepresentationsWitness ==
    /\ Succeeded(ret)
    /\ ret.op = "add_code_cell_and_execute"
    /\ ydoc.cells # <<>>
    /\ ydoc.cells[Len(ydoc.cells)]["outputs"] # <<>>
    /\ server.cells = ydoc.cells

\* ------------------------------------------------------------------------
\* C5: a failed call leaves nothing partially mutated for later calls.
\* After an operation raised past a mutation of the canonical document,
\* the next tool operation, once refreshed, has a canonical document and a
\* mirror made of the stored content alone.  The stored notebook changes
\* only in a save (or by the external party), and an operation that raises
\* after it mutated leaves it unchanged or holding its complete result.
FreshAfterFailure ==
    \A p \in Procs :
        (failed = "dirty" /\ pc[p] = "body" /\ server.cells = loc[p].base) =>
            /\ SameButTransient(notebook.cells, server.cells)
            /\ ydoc = notebook

FailureWritesAllOrNothing ==
    /\ (server' # server) =>
           (nExt' # nExt \/ \E p \in Procs : pc[p] \in {"save", "init_save"})
    /\ (ret'.outcome = "raise" /\ InSeq("mutate", ret'.trace)) =>
           \/ server' = server
           \/ /\ server' = notebook
              /\ server'.cells = SerialApply(ret'.op, ret'.arg, ret'.outputs,
                                             ret'.base)

NothingPartial == []FreshAfterFailure /\ [][FailureWritesAllOrNothing]_vars

\* An operation is past its refresh after an earlier one raised with
\* uncommitted changes in memory.
NothingPartialWitness ==
    /\ failed = "dirty"
    /\ nExt = 0
    /\ \E p \in Procs :
          /\ pc[p] = "body"
          /\ op[p] \in ToolOps
          /\ server.cells = loc[p].base

\* ------------------------------------------------------------------------
\* C6: a deleted cell does not reappear.  After delete_cell succeeded on a
\* cell X, as long as only cells are added, get_all_cells lists the cells
\* that were left, in their order, followed by the cells added since: as
\* many as before the deletion minus one plus the added ones, and X is
\* among them only if an equal cell was there besides it or was added.
Sameness(info, cell) ==
    /\ info.cell_type = cell["cell_type"]
    /\ info.source = cell["source"]

DeletedStaysGone ==
    (ret.outcome = "ok" /\ ret.op = "get_all_cells" /\ gone.active) =>
        /\ Len(ret.list) = Len(gone.expect)
        /\ \A k \in 1..Len(gone.expect) :
              /\ ret.list[k].index = k - 1
              /\ Sameness(ret.list[k], gone.expect[k])
        /\ (\A k \in 1..Len(gone.expect) :
                 \/ gone.expect[k]["cell_type"] # gone.x["cell_type"]
                 \/ gone.expect[k]["source"] # gone.x["source"]) =>
              \A k \in 1..Len(ret.list) : ~Sameness(ret.list[k], gone.x)

\* The markdown cell "a" was deleted, a cell "b" was added, and the listing
\* shows the code cell that was left and the added cell.
DeletedStaysGoneWitness ==
    /\ ret.outcome = "ok"
    /\ ret.op = "get_all_cells"
    /\ gone.active
    /\ gone.x = new_markdown_cell("a")
    /\ Len(ret.list) = 2
    /\ ret.list[1].cell_type = "code"
    /\ ret.list[2].source = "b"
    /\ ret.list[2].cell_type = "markdown"

\* ------------------------------------------------------------------------
\* C7 as stated: after a refresh_from_server that follows an external
\* change, the canonical document and the mirror equal the server content.
RefreshEqualsServerAsStated ==
    \A p \in Procs :
        (nExt > 0 /\ pc[p] = "body" /\ server.cells = loc[p].base) =>
            /\ notebook.cells = server.cells
            /\ ydoc.cells = server.cells

\* C7: external edits are picked up.  After refresh_from_server the
\* canonical document and the mirror are the server content as it was
\* read, whatever was in memory, except that the top-level "transient" key
\* of every output is removed; the operation acts on that content, and what
\* it saves is its own effect on it, so that an external edit made before
\* the refresh is still there.
RefreshPicksUpServer ==
    /\ \A p \in Procs :
          pc[p] = "body" =>
              /\ SameButTransient(notebook.cells, loc[p].base)
              /\ ydoc = notebook
    /\ Succeeded(ret) =>
          server.cells = SerialApply(ret.op, ret.arg, ret.outputs, ret.base)

\* The external party added its cell "x"; an add_markdown_cell that
\* refreshed afterwards saved the cell "x" followed by its own.
RefreshPicksUpServerWitness ==
    /\ nExt = 1
    /\ Succeeded(ret)
    /\ ret.op = "add_markdown_cell"
    /\ Len(ret.base) >= 1
    /\ ret.base[Len(ret.base)] = ExternalCell
    /\ Len(server.cells) = Len(ret.base) + 1
    /\ server.cells[Len(ret.base)]["source"] = "x"
    /\ server.cells[Len(server.cells)] = new_markdown_cell(ret.arg.text)

\* ------------------------------------------------------------------------
\* The reply that ends the round trip of the request msg_id.
IsTerminalReply(msg, msg_id) ==
    /\ msg.header.msg_type = "execute_reply"
    /\ "msg_id" \in DOMAIN msg.parent_header
    /\ msg.parent_header.msg_id = msg_id

LoopEnded(p) == op[p] \in ExecOps /\ pc[p] \in {"process", "sync", "save"}

\* C8: termination of the receive loop.  While the loop of _collect_outputs
\* runs it has read no terminal reply; once it has ended, the last message
\* it read is the first terminal reply that arrived.
LoopStopsAtTerminalReply ==
    \A p \in Procs :
        LET msgs == received[p]
            id == loc[p].msg_id
        IN /\ pc[p] = "recv" =>
                 \A k \in 1..Len(msgs) : ~IsTerminalReply(msgs[k], id)
           /\ LoopEnded(p) =>
                 /\ msgs # <<>>
                 /\ IsTerminalReply(msgs[Len(msgs)], id)
                 /\ \A k \in 1..(Len(msgs) - 1) : ~IsTerminalReply(msgs[k], id)

\* The loop read an execute_reply to somebody else's request and an error
\* of its own request, went on, and ended on its own execute_reply.
LoopStopsAtTerminalReplyWitness ==
    \E p \in Procs :
        /\ pc[p] = "process"
        /\ Len(received[p]) = 3
        /\ received[p][1].header.msg_type = "execute_reply"
        /\ received[p][1].parent_header # received[p][3].parent_header
        /\ received[p][2].header.msg_type = "error"
        /\ received[p][2].parent_header = received[p][3].parent_header

\* ------------------------------------------------------------------------
\* A message of the request msg_id that carries an output.
IsOutputMsg(msg, msg_id) ==
    /\ msg.header.msg_type \in {"stream", "display_data", "execute_result",
                                "error"}
    /\ "msg_id" \in DOMAIN msg.parent_header
    /\ msg.parent_header.msg_id = msg_id

\* The output carries the payload of the message.
OutputMatches(out, msg) ==
    /\ out.output_type = msg.header.msg_type
    /\ \A f \in DOMAIN out \ {"output_type"} : out[f] = msg.content[f]

\* C9: output aggregation.  The outputs collected so far, and the list
\* execute_code returns, are the messages read that have the parent msg_id
\* of the request and the type stream, display_data, execute_result or
\* error, one output each, in arrival order.
OutputsAreMatchingSubsequence ==
    \A p \in Procs :
        pc[p] \in {"recv", "process"} =>
            LET id == loc[p].msg_id
                wanted == SelectSeq(received[p], LAMBDA m : IsOutputMsg(m, id))
            IN /\ Len(loc[p].raw) = Len(wanted)
               /\ \A k \in 1..Len(wanted) : OutputMatches(loc[p].raw[k], wanted[k])

\* execute_code returns two outputs of different types in arrival order.
OutputsAreMatchingSubsequenceWitness ==
    \E p \in Procs :
        /\ pc[p] = "process"
        /\ Len(loc[p].raw) = 2
        /\ loc[p].raw[1].output_type = "execute_result"
        /\ loc[p].raw[2].output_type = "stream"

\* A foreign output was read and contributed nothing.
OutputsSkipForeignWitness ==
    \E p \in Procs :
        /\ pc[p] = "process"
        /\ Len(received[p]) = 3
        /\ Len(loc[p].raw) = 1
        /\ received[p][1].header.msg_type = "stream"
        /\ received[p][2].header.msg_type = "display_data"
        /\ loc[p].raw[1].output_type = "display_data"

\* ------------------------------------------------------------------------
\* The steps the program takes by itself: answers of the remote service
\* arrive, the event loop resumes the coroutine.  What the kernel sends,
\* and whether it sends anything, is not up to the program.
ProgramStep ==
    \/ RefreshFromServer(1)
    \/ AddCodeCellAndExecute(1)
    \/ ExecuteCell(1)
    \/ ExecuteOnServer(1)
    \/ GetSessions(1)
    \/ CreateSession(1)
    \/ WsConnect(1)
    \/ WsSend(1)
    \/ ProcessOutputs(1)
    \/ SyncToYdoc(1)
    \/ SaveNotebook(1)
    \/ InitializeKernels(1)
    \/ LoadOrCreateNotebook(1)
    \/ SaveCreatedNotebook(1)
    \/ InitializeYdoc(1)

SpecKernelFair == SpecKernel /\ WF_vars(ProgramStep)

\* C10: execution timeout.  A round trip that waits for the kernel ends,
\* with the reply or with an error, and the lock is released.
ExecuteTerminates ==
    \A p \in Procs : (pc[p] = "recv") ~> (pc[p] # "recv" /\ ~locked)

\* ------------------------------------------------------------------------
\* C11: session reuse.  The remote service lists at most one session of the
\* notebook path, however many executions ran (a create_session issued
\* while one is listed would add a second one); and the identifiers an
\* execution goes on with are those of the listed session of the path.
OwnSessions == {k \in 1..Len(sessions) : sessions[k].path = NotebookPath}

SessionReuse ==
    /\ Cardinality(OwnSessions) <= 1
    /\ \A p \in Procs :
          pc[p] \in {"connect", "send", "recv"} =>
              \E k \in OwnSessions :
                  loc[p].session = <<sessions[k].id, sessions[k].kernel.id>>

\* A second execution found the session the first one created and goes on
\* with its identifiers without a create_session call.
SessionReuseWitness ==
    \E p \in Procs :
        /\ pc[p] = "connect"
        /\ nExec >= 1
        /\ ~InSeq("create_session", trace[p])
        /\ loc[p].session = <<"s1", "k1">>

\* ------------------------------------------------------------------------
\* C12: index shift on deletion.  A successful delete_cell(i), 0 <= i < n,
\* on the n cells the refresh read stores the n-1 cells before and after
\* position i in their order (outputs as the refresh cleaned them), and
\* get_all_cells lists the stored cells in order at the indices 0, 1, ...
ShiftedCells(base, i) ==
    [j \in 1..(Len(base) - 1) |-> IF j <= i THEN base[j] ELSE base[j + 1]]

IndexShiftOnDeletion ==
    /\ (Succeeded(ret) /\ ret.op = "delete_cell" /\ ret.arg.index >= 0) =>
          /\ ret.arg.index < Len(ret.base)
          /\ Len(server.cells) = Len(ret.base) - 1
          /\ SameButTransient(server.cells,
                              ShiftedCells(ret.base, ret.arg.index))
    /\ (ret.outcome = "ok" /\ ret.op = "get_all_cells") =>
          /\ Len(ret.list) = Len(server.cells)
          /\ \A k \in 1..Len(server.cells) :
                /\ ret.list[k].index = k - 1
                /\ ret.list[k].cell_type = server.cells[k]["cell_type"]
                /\ ret.list[k].source = server.cells[k]["source"]

\* Index 0 of three cells was deleted: the second and the third cell are
\* stored, and the source of the first one appears nowhere.
IndexShiftOnDeletionWitness ==
    /\ Succeeded(ret)
    /\ ret.op = "delete_cell"
    /\ ret.arg.index = 0
    /\ Len(ret.base) = 3
    /\ ret.base[1]["source"] = "a"
    /\ Len(server.cells) = 2
    /\ server.cells[1]["source"] = ret.base[2]["source"]
    /\ server.cells[2] = ret.base[3]
    /\ \A k \in 1..2 : server.cells[k]["source"] # "a"

\* ------------------------------------------------------------------------
\* The operation that returned got past its refresh (the fetch of the
\* notebook did not fail).
Refreshed(r) ==
    /\ r.outcome # "none"
    /\ r.op \in ToolOps
    /\ ~(r.outcome = "raise" /\ r.msg = "NotebookError"
           /\ r.trace = <<"acquire", "refresh_from_server", "release">>)

OutOfRangeText(i) == "Error: Cell index " \o ToString(i) \o " out of range"

\* The operation returned without a step that changes or stores anything.
ReadOnlyRun(r) == r.trace = <<"acquire", "refresh_from_server", "release">>

\* C13: out-of-range update/delete.  update_cell and delete_cell with an
\* index equal to or greater than the cell count return the out-of-range
\* message, raise nothing, mutate and save nothing, and the stored notebook
\* is what the refresh read.
OutOfRangeAbove ==
    (Refreshed(ret) /\ ret.op \in {"update_cell", "delete_cell"}
       /\ ret.arg.index >= Len(ret.base)) =>
        /\ ret.outcome = "ok"
        /\ ret.msg = OutOfRangeText(ret.arg.index)
        /\ ReadOnlyRun(ret)
        /\ nExt = 0 => server.cells = ret.base

\* delete_cell(1) on a notebook of one cell.
OutOfRangeAboveWitness ==
    /\ Refreshed(ret)
    /\ ret.op = "delete_cell"
    /\ ret.arg.index = 1
    /\ Len(ret.base) = 1
    /\ ret.msg = "Error: Cell index 1 out of range"
    /\ server.cells = ret.base

\* ------------------------------------------------------------------------
\* C14: the lower bound.  update_cell, delete_cell and execute_cell with a
\* negative index return the out-of-range string, raise nothing and modify
\* no cell.
NegativeIndexRejected ==
    (Refreshed(ret) /\ ret.op \in {"update_cell", "delete_cell", "execute_cell"}
       /\ ret.arg.index < 0) =>
        /\ ret.outcome = "ok"
        /\ \/ ret.msg = OutOfRangeText(ret.arg.index)
           \/ ret.list = <<OutOfRangeText(ret.arg.index)>>
        /\ ReadOnlyRun(ret)

\* ------------------------------------------------------------------------
\* C15: execute_cell on a cell that is not a code cell returns the one
\* string 'Error: Can only execute code cells'; it looked up no session,
\* opened no channel, mutated and saved nothing, and the stored notebook is
\* what the refresh read.
NotCodeCellRejected ==
    (Refreshed(ret) /\ ret.op = "execute_cell"
       /\ 0 <= ret.arg.index /\ ret.arg.index < Len(ret.base)
       /\ ret.base[ret.arg.index + 1]["cell_type"] # "code") =>
        /\ ret.outcome = "ok"
        /\ ret.list = <<"Error: Can only execute code cells">>
        /\ ret.msg = ""
        /\ ReadOnlyRun(ret)
        /\ nExt = 0 => server.cells = ret.base

\* execute_cell(0) on the markdown cell "a".
NotCodeCellRejectedWitness ==
    /\ Refreshed(ret)
    /\ ret.op = "execute_cell"
    /\ ret.arg.index = 0
    /\ Len(ret.base) >= 1
    /\ ret.base[1] = new_markdown_cell("a")
    /\ ret.list = <<"Error: Can only execute code cells">>
    /\ server.cells = ret.base

\* ------------------------------------------------------------------------
\* Several coroutines queue for the lock: initialize() and get_all_cells.
QueueOps == {"initialize", "get_all_cells"}

NextQueue ==
    \/ \E p \in Procs, o \in QueueOps :
          nCalls < MaxQueueCalls /\ Call(p, o, NoArg)
    \/ \E p \in Procs : Wake(p)
    \/ \E p \in Procs : RefreshFromServer(p)
    \/ \E p \in Procs : GetAllCells(p)
    \/ \E p \in Procs : InitializeKernels(p)
    \/ \E p \in Procs : LoadOrCreateNotebook(p)
    \/ \E p \in Procs : SaveCreatedNotebook(p)
    \/ \E p \in Procs : InitializeYdoc(p)

\* The event loop resumes whoever can go on, and the remote service answers.
QueueStep ==
    \/ \E p \in Procs : Wake(p)
    \/ \E p \in Procs : RefreshFromServer(p)
    \/ \E p \in Procs : GetAllCells(p)
    \/ \E p \in Procs : InitializeKernels(p)
    \/ \E p \in Procs : LoadOrCreateNotebook(p)
    \/ \E p \in Procs : SaveCreatedNotebook(p)
    \/ \E p \in Procs : InitializeYdoc(p)

SpecQueue == Init /\ [][NextQueue]_vars /\ WF_vars(QueueStep)

Position(p) == CHOOSE k \in 1..Len(waiters) : waiters[k] = p

\* Who starts waiting goes to the tail of the queue; who enters after
\* waiting was ahead of all the others waiting; nobody enters without
\* waiting while somebody waits.
NoOvertaking ==
    \A q \in Procs :
        /\ (pc[q] # "wait" /\ pc'[q] = "wait") => waiters' = Append(waiters, q)
        /\ (pc[q] = "wait" /\ InCriticalSection(q)') =>
              \A p \in Procs \ {q} : pc[p] = "wait" => Position(q) < Position(p)
        /\ (pc[q] = "idle" /\ InCriticalSection(q)') =>
              \A p \in Procs : pc[p] # "wait"

\* C16: FIFO admission.  Waiting operations enter their critical sections
\* in the order in which they started waiting, no later arrival overtakes
\* a waiter, and every waiter eventually enters.
FifoAdmission ==
    /\ [][NoOvertaking]_vars
    /\ \A p \in Procs : (pc[p] = "wait") ~> InCriticalSection(p)

\* The holder released the lock while two operations wait.
FifoAdmissionWitness ==
    /\ ~locked
    /\ Len(waiters) = 2
    /\ \A k \in 1..2 : pc[waiters[k]] = "wait" /\ op[waiters[k]] = "get_all_cells"

\* ------------------------------------------------------------------------
\* C17: initialize() recovers exactly one failure.  It saves only the empty
\* notebook it created for a 404, right after the fetch, and builds the
\* mirror from it; after a 200 it saves nothing; when the kernelspecs or
\* the fetch fail otherwise it raises without a save and without building
\* the mirror.
InitializeRecoversNotFound ==
    /\ \A p \in Procs :
          /\ pc[p] = "init_save" =>
                loc[p].status = 404 /\ notebook = Doc(<<>>)
          /\ pc[p] = "init_ydoc" =>
                /\ loc[p].status \in {200, 404}
                /\ loc[p].status = 404 <=> InSeq("save", trace[p])
                /\ loc[p].status = 404 =>
                      /\ notebook = Doc(<<>>)
                      /\ nExt = 0 => server = Doc(<<>>)
    /\ (ret.op = "initialize" /\ ret.outcome = "ok") =>
          /\ ret.status \in {200, 404}
          /\ ret.status = 404 <=> InSeq("save", ret.trace)
          /\ ydoc.present /\ ydoc = notebook
    /\ (ret.op = "initialize" /\ ret.outcome = "raise"
          /\ ret.msg \in {"KernelError", "Failed to access notebook: 500"}) =>
          /\ ~InSeq("save", ret.trace)
          /\ ~InSeq("init_ydoc", ret.trace)
          /\ ret.status = 0

\* The fetch answered 404; the empty notebook is stored and mirrored.
InitializeRecoversNotFoundWitness ==
    /\ ret.op = "initialize"
    /\ ret.outcome = "ok"
    /\ ret.status = 404
    /\ server = Doc(<<>>)
    /\ ydoc = Doc(<<>>)

\* The fetch answered 500: the error is passed on and no mirror exists.
InitializePropagatesWitness ==
    /\ ret.op = "initialize"
    /\ ret.outcome = "raise"
    /\ ret.msg = "Failed to access notebook: 500"
    /\ ~ydoc.present

\* ------------------------------------------------------------------------
\* C18: the document never returns to Uninitialized.  When initialize()
\* returns successfully the canonical notebook and the mirror are present,
\* and no step of any operation, succeeding or failing, takes a present
\* notebook or a present mirror away.
Loaded == notebook.present /\ ydoc.present

StaysLoaded ==
    /\ [](ret.op = "initialize" /\ ret.outcome = "ok" => Loaded)
    /\ [][Loaded => Loaded']_vars

\* A tool operation raised after initialize(); both are still there.
StaysLoadedWitness ==
    /\ Loaded
    /\ ret.outcome = "raise"
    /\ ret.op \in MutatingOps
    /\ failed = "dirty"

\* ------------------------------------------------------------------------
NextSync ==
    \/ nCalls < MaxSyncCalls /\ Call(1, "initialize", NoArg)
    \/ InitializeKernels(1)
    \/ LoadOrCreateNotebook(1)
    \/ SaveCreatedNotebook(1)
    \/ InitializeYdoc(1)
    \/ DirectRefresh
    \/ DirectSyncToYdoc
    \/ DirectSyncFromYdoc
    \/ MutateInMemory
    \/ ExternalWrite

SpecSync == Init /\ [][NextSync]_vars

\* C19: idempotent refresh.  A refresh_from_server that returns right after
\* another one returned, nothing having happened in between, leaves the
\* canonical document and the mirror as the first one left them.
SecondRefresh(r) ==
    /\ r.op = "refresh_from_server"
    /\ r.outcome = "ok"
    /\ r.msg = "refresh_from_server"

SyncFromYdocWitness ==
    /\ ret.op = "sync_from_ydoc"
    /\ ret.msg = ""
    /\ notebook = ydoc
    /\ SameButTransient(notebook.cells, server.cells)

\* ------------------------------------------------------------------------
\* C21: appending keeps the prefix.  A successful add_markdown_cell or
\* add_code_cell_and_execute on refreshed content of n cells stores n+1
\* cells: the n cells as the refresh took them (kind, source, outputs), then
\* the new cell of the requested kind and source at index n.
AppendKeepsPrefix ==
    (Succeeded(ret)
       /\ ret.op \in {"add_markdown_cell", "add_code_cell_and_execute"}) =>
        LET n == Len(ret.base)
        IN /\ Len(server.cells) = n + 1
           /\ SameButTransient(SubSeq(server.cells, 1, n), ret.base)
           /\ server.cells[n + 1]["source"] = ret.arg.text
           /\ server.cells[n + 1]["cell_type"] =
                 IF ret.op = "add_markdown_cell" THEN "markdown" ELSE "code"

\* A code cell "b" was appended to the two stored cells and executed.
AppendKeepsPrefixWitness ==
    /\ Succeeded(ret)
    /\ ret.op = "add_code_cell_and_execute"
    /\ Len(ret.base) = 2
    /\ Len(server.cells) = 3
    /\ server.cells[1] = ret.base[1]
    /\ server.cells[3]["source"] = "b"
    /\ server.cells[3]["outputs"] # <<>>

\* ------------------------------------------------------------------------
\* C22: add_code_cell_and_execute executes the cell it appended: the code
\* sent to the kernel is the requested source, stored at the tail index
\* that follows the refreshed cells.  Its result is never empty: the
\* non-empty display values of the stored outputs in order, or the one
\* element 'Cell executed successfully with no output' when there is none.
AddCodeExecutesAppended ==
    (Succeeded(ret) /\ ret.op = "add_code_cell_and_execute") =>
        LET n == Len(ret.base)
            outs == server.cells[n + 1]["outputs"]
            vals == SelectSeq([k \in 1..Len(outs) |->
                                  extract_output_from_cell(outs[k])],
                              LAMBDA v : v # "")
        IN /\ Len(server.cells) = n + 1
           /\ ret.code = ret.arg.text
           /\ server.cells[n + 1]["source"] = ret.code
           /\ outs = ret.outputs
           /\ ret.list # <<>>
           /\ ret.list = IF vals = <<>>
                         THEN <<"Cell executed successfully with no output">>
                         ELSE vals

\* The only output of the appended cell "b" has an empty text: the result
\* is the no-output marker.
AddCodeExecutesAppendedWitness ==
    /\ Succeeded(ret)
    /\ ret.op = "add_code_cell_and_execute"
    /\ ret.code = "b"
    /\ Len(ret.base) = 2
    /\ Len(ret.outputs) = 1
    /\ ret.outputs[1]["text"] = ""
    /\ ret.list = <<"Cell executed successfully with no output">>

\* Two outputs with display values are returned in order.
AddCodeReturnsValuesWitness ==
    /\ Succeeded(ret)
    /\ ret.op = "add_code_cell_and_execute"
    /\ Len(ret.outputs) = 2
    /\ ret.list = <<"t", "NameError: t\ntb">>

\* ------------------------------------------------------------------------
\* C23: get_all_cells is read-only towards the remote service.  It never
\* gets to a kernel call, a sync or a save, no step of it changes the
\* stored notebook, and it returns after its refresh alone.
GetAllCellsReadOnly ==
    /\ [](\A p \in Procs :
             op[p] = "get_all_cells" =>
                 /\ pc[p] \in {"wait", "refresh", "body"}
                 /\ \A k \in 1..Len(trace[p]) :
                       trace[p][k] \in {"acquire", "refresh_from_server"})
    /\ [](ret.op = "get_all_cells" /\ Refreshed(ret) =>
             /\ ret.outcome = "ok"
             /\ ReadOnlyRun(ret)
             /\ nExt = 0 => server.cells = ret.base)
    /\ [][\A p \in Procs :
             (op[p] = "get_all_cells" /\ pc'[p] # pc[p]) => server' = server]_vars

\* It listed a stored notebook whose output carries a `transient` key.
GetAllCellsReadOnlyWitness ==
    /\ ret.op = "get_all_cells"
    /\ ret.outcome = "ok"
    /\ Len(ret.list) = 2
    /\ ret.list[2].outputs = <<"t">>
    /\ server.cells = ret.base
    /\ "transient" \in DOMAIN server.cells[2]["outputs"][1]

ClearAllOutputsFrame ==
    (Succeeded(ret) /\ ret.op = "clear_all_outputs") =>
        /\ Len(server.cells) = Len(ret.base)
        /\ \A k \in 1..Len(ret.base) :
              /\ server.cells[k]["cell_type"] = ret.base[k]["cell_type"]
              /\ server.cells[k]["source"] = ret.base[k]["source"]
              /\ ret.base[k]["cell_type"] = "code" =>
                    server.cells[k]["outputs"] = <<>>
              /\ ret.base[k]["cell_type"] # "code" =>
                    server.cells[k] = ret.base[k]
        /\ (\A k \in 1..Len(ret.base) :
               ret.base[k]["cell_type"] = "code" =>
                   ret.base[k]["outputs"] = <<>>) =>
              server.cells = ret.base

\* The output of the stored code cell was cleared.
ClearAllOutputsFrameWitness ==
    /\ Succeeded(ret)
    /\ ret.op = "clear_all_outputs"
    /\ Len(ret.base) = 2
    /\ ret.base[2]["outputs"] # <<>>
    /\ server.cells[2]["outputs"] = <<>>
    /\ server.cells[1] = new_markdown_cell("a")

\* A second call found nothing to clear and stored the same cells.
ClearAllOutputsTwiceWitness ==
    /\ Succeeded(ret)
    /\ ret.op = "clear_all_outputs"
    /\ Len(ret.base) = 2
    /\ ret.base[2]["outputs"] = <<>>
    /\ server.cells = ret.base

JustLoaded(p) ==
    \/ pc[p] = "body"
    \/ pc[p] = "init_ydoc" /\ loc[p].status = 200

NoTransient(cs) ==
    \A k \in 1..Len(cs) :
        "outputs" \in DOMAIN cs[k] =>
            \A j \in 1..Len(cs[k]["outputs"]) :
                "transient" \notin DOMAIN cs[k]["outputs"][j]

TransientStrippedOnLoad ==
    \A p \in Procs :
        JustLoaded(p) =>
            /\ notebook.present
            /\ NoTransient(notebook.cells)
            /\ SameButTransient(notebook.cells, loc[p].base)
            /\ loc[p].fetched = loc[p].base

\* A refresh took in an output that came with a `transient` key.
TransientStrippedOnLoadWitness ==
    \E p \in Procs :
        /\ pc[p] = "body"
        /\ ~NoTransient(loc[p].base)
        /\ ~NoTransient(loc[p].fetched)
        /\ notebook.cells # loc[p].base

\* initialize() took in an output that came with a `transient` key.
TransientStrippedOnInitWitness ==
    \E p \in Procs :
        /\ pc[p] = "init_ydoc"
        /\ loc[p].status = 200
        /\ ~NoTransient(loc[p].fetched)
        /\ NoTransient(notebook.cells)

\* ------------------------------------------------------------------------
\* The outputs extract_output_from_cell is applied to: display_data and
\* execute_result outputs over every choice of the three MIME types, error
\* outputs with and without each of their keys, stream outputs, an output
\* of an unknown type and one without type.  A key is given as a sequence
\* of no value (the key is absent) or one value.
Opt(k, x) == [j \in (IF x = <<>> THEN {} ELSE {k}) |-> x[1]]

PngValues == {<<>>, <<"iVBORw0K">>, <<"R0lGODlh">>}
HtmlValues == {<<>>, <<"<b>1</b>">>, <<"<i>2</i>">>}
PlainValues == {<<>>, <<"1">>, <<"2">>}

MimeMaps ==
    { Opt("image/png", g) @@ Opt("text/html", h) @@ Opt("text/plain", t) :
        g \in PngValues, h \in HtmlValues, t \in PlainValues }

DisplayOutputs ==
    { [output_type |-> t] @@ Opt("data", d) :
        t \in {"display_data", "execute_result"},
        d \in {<<>>} \cup {<<m>> : m \in MimeMaps} }

ErrorOutputs ==
    { [output_type |-> "error"] @@ Opt("ename", n) @@ Opt("evalue", m)
          @@ Opt("traceback", tb) :
        n \in {<<>>, <<"NameError">>, <<"ValueError">>},
        m \in {<<>>, <<"name 'x' is not defined">>, <<"">>},
        tb \in {<<>>, << <<>> >>, << <<"line1">> >>, << <<"line1", "line2">> >>} }

OtherOutputs ==
    { [output_type |-> "stream"] @@ Opt("text", t) : t \in {<<>>, <<"out">>} }
      \cup { [output_type |-> "update_display_data"], [name |-> "stdout"] }

ExtractInputs == DisplayOutputs \cup ErrorOutputs \cup OtherOutputs

InitExtract ==
    /\ server \in {Doc(cs) : cs \in InitialCells}
    /\ notebook = NoDoc
    /\ ydoc = NoDoc
    /\ locked = FALSE
    /\ waiters = <<>>
    /\ pc = [p \in Procs |-> IF p = 1 THEN "extract" ELSE "idle"]
    /\ op = [p \in Procs |-> ""]
    /\ arg = [p \in Procs |-> NoArg]
    /\ \E o \in ExtractInputs :
          loc = [p \in Procs |-> IF p = 1 THEN [NoLoc EXCEPT !.outputs = <<o>>]
                                 ELSE NoLoc]
    /\ trace = [p \in Procs |-> <<>>]
    /\ ret = NoRet
    /\ serial = server
    /\ failed = "no"
    /\ gone = NoGone
    /\ sessions = <<ForeignSession>>
    /\ available_kernels = <<>>
    /\ default_kernel = ""
    /\ kernel_name = ConfigKernelName
    /\ advertised = NoReply
    /\ channel = [p \in Procs |-> FALSE]
    /\ received = [p \in Procs |-> <<>>]
    /\ nExec = 0
    /\ nExt = 0
    /\ nCalls = 0

\* `extracted = extract_output_from_cell(output)`
ExtractOutput ==
    /\ pc[1] = "extract"
    /\ pc' = [pc EXCEPT ![1] = "extracted"]
    /\ loc' = [loc EXCEPT ![1].extracted =
                  <<extract_output_from_cell(loc[1].outputs[1])>>]
    /\ UNCHANGED <<docVars, locked, waiters, op, arg, trace, ret, ghostVars,
                   kernelVars, nCalls>>

NextExtract == ExtractOutput

SpecExtract == InitExtract /\ [][NextExtract]_vars

Has(d, k) == k \in DOMAIN d

\* C28: output extraction precedence.  The value extracted from a
\* display_data or execute_result output is the image made of image/png if
\* that is present, else the text/html value if that is present, else the
\* text/plain value if that is present, else the empty string.
ExtractionPrecedence ==
    pc[1] = "extracted" =>
        LET o == loc[1].outputs[1]
            v == loc[1].extracted[1]
        IN (Has(o, "output_type")
              /\ o["output_type"] \in {"display_data", "execute_result"}) =>
              IF ~Has(o, "data") THEN v = ""
              ELSE LET data == o["data"]
                   IN /\ Has(data, "image/png") =>
                            /\ v = png_to_image_obj(data["image/png"])
                            /\ Has(data, "text/html") => v # data["text/html"]
                      /\ (~Has(data, "image/png") /\ Has(data, "text/html")) =>
                            v = data["text/html"]
                      /\ (~Has(data, "image/png") /\ ~Has(data, "text/html")
                            /\ Has(data, "text/plain")) =>
                            v = data["text/plain"]
                      /\ DOMAIN data = {} => v = ""

\* With text/html and text/plain both present the HTML was returned.
ExtractionPrecedenceWitness ==
    /\ pc[1] = "extracted"
    /\ loc[1].outputs[1] =
          [output_type |-> "display_data",
           data |-> Opt("text/html", <<"<b>1</b>">>) @@ Opt("text/plain", <<"1">>)]
    /\ loc[1].extracted = <<"<b>1</b>">>

\* With all three present the image was returned.
ExtractionImageWitness ==
    /\ pc[1] = "extracted"
    /\ Has(loc[1].outputs[1], "output_type")
    /\ Has(loc[1].outputs[1], "data")
    /\ loc[1].outputs[1]["output_type"] = "execute_result"
    /\ DOMAIN loc[1].outputs[1]["data"] = {"image/png", "text/html", "text/plain"}
    /\ loc[1].extracted = <<png_to_image_obj("iVBORw0K")>>

\* C29: error formatting.  An error output with name N, message M and
\* traceback lines t1..tk extracts to N, ": ", M, a newline and the lines
\* separated by newlines, nothing after the last one.
ErrorFormatting ==
    pc[1] = "extracted" =>
        LET o == loc[1].outputs[1]
            v == loc[1].extracted[1]
        IN (Has(o, "output_type") /\ o["output_type"] = "error"
              /\ Has(o, "ename") /\ Has(o, "evalue") /\ Has(o, "traceback")) =>
              LET head == o["ename"] \o ": " \o o["evalue"] \o "\n"
                  tb == o["traceback"]
              IN /\ Len(tb) = 0 => v = head
                 /\ Len(tb) = 1 => v = head \o tb[1]
                 /\ Len(tb) = 2 => v = head \o tb[1] \o "\n" \o tb[2]
                 /\ Len(tb) <= 2
                 /\ (o["ename"] = "NameError"
                       /\ o["evalue"] = "name 'x' is not defined"
                       /\ tb = <<"line1", "line2">>) =>
                       v = "NameError: name 'x' is not defined\nline1\nline2"

\* The NameError with two traceback lines was formatted.
ErrorFormattingWitness ==
    /\ pc[1] = "extracted"
    /\ loc[1].outputs[1] =
          [output_type |-> "error", ename |-> "NameError",
           evalue |-> "name 'x' is not defined",
           traceback |-> <<"line1", "line2">>]
    /\ loc[1].extracted = <<"NameError: name 'x' is not defined\nline1\nline2">>

\* ------------------------------------------------------------------------
\* One request of JupyterServerClient and the status the remote service
\* answers it with.
Endpoints == {"get_kernelspecs", "get_notebook_content",
              "save_notebook_content", "get_sessions", "create_session"}
Statuses == {200, 201, 202, 204, 206, 301, 400, 401, 403, 404, 409, 500, 503}

StatusOutcome(endpoint, status) ==
    CASE endpoint = "get_kernelspecs" -> get_kernelspecs(status)
      [] endpoint = "get_notebook_content" -> get_notebook_content(status)
      [] endpoint = "save_notebook_content" -> save_notebook_content(status)
      [] endpoint = "get_sessions" -> get_sessions(status)
      [] OTHER -> create_session(status)

InitStatus ==
    /\ server \in {Doc(cs) : cs \in InitialCells}
    /\ notebook = NoDoc
    /\ ydoc = NoDoc
    /\ locked = FALSE
    /\ waiters = <<>>
    /\ pc = [p \in Procs |-> IF p = 1 THEN "request" ELSE "idle"]
    /\ \E e \in Endpoints :
          op = [p \in Procs |-> IF p = 1 THEN e ELSE ""]
    /\ arg = [p \in Procs |-> NoArg]
    /\ \E status \in Statuses :
          loc = [p \in Procs |-> IF p = 1 THEN [NoLoc EXCEPT !.status = status]
                                 ELSE NoLoc]
    /\ trace = [p \in Procs |-> <<>>]
    /\ ret = NoRet
    /\ serial = server
    /\ failed = "no"
    /\ gone = NoGone
    /\ sessions = <<ForeignSession>>
    /\ available_kernels = <<>>
    /\ default_kernel = ""
    /\ kernel_name = ConfigKernelName
    /\ advertised = NoReply
    /\ channel = [p \in Procs |-> FALSE]
    /\ received = [p \in Procs |-> <<>>]
    /\ nExec = 0
    /\ nExt = 0
    /\ nCalls = 0

\* The request method returns or raises.
Respond ==
    LET r == StatusOutcome(op[1], loc[1].status)
    IN /\ pc[1] = "request"
       /\ pc' = [pc EXCEPT ![1] = "idle"]
       /\ ret' = [NoRet EXCEPT !.proc = 1, !.op = op[1], !.outcome = r.outcome,
                               !.msg = r.error,
                               !.list = IF r.outcome = "raise" THEN <<r.text>>
                                        ELSE <<>>,
                               !.status = loc[1].status]
       /\ UNCHANGED <<docVars, locked, waiters, op, arg, loc, trace, ghostVars,
                      kernelVars, nCalls>>

NextStatus == Respond

SpecStatus == InitStatus /\ [][NextStatus]_vars

Is2xx(status) == 200 <= status /\ status < 300
Responded == ret.op \in Endpoints
NotebookEndpoints == {"get_notebook_content", "save_notebook_content"}
RaisedError(error) == ret.outcome = "raise" /\ ret.msg = error
NotFoundSignal == ret.outcome = "raise" /\ IsNotFound(ret.list[1])

\* The part of the mapping that concerns the statuses outside 2xx.
NonSuccessMapping ==
    Responded =>
        /\ (ret.op = "get_notebook_content" /\ ret.status = 404) =>
              RaisedError("NotebookError") /\ NotFoundSignal
        /\ (ret.op = "get_notebook_content" /\ ~Is2xx(ret.status)
              /\ ret.status # 404) =>
              RaisedError("NotebookError") /\ ~NotFoundSignal
        /\ (ret.op = "save_notebook_content" /\ ~Is2xx(ret.status)) =>
              RaisedError("NotebookError")
        /\ (ret.op \notin NotebookEndpoints /\ ~Is2xx(ret.status)) =>
              RaisedError("KernelError")

\* C30 as stated: ..., and every 2xx status is treated as success.
StatusMappingAsStated ==
    /\ NonSuccessMapping
    /\ (Responded /\ Is2xx(ret.status)) => ret.outcome = "ok"

\* C30: remote status mapping.  A 404 on notebook fetch raises the
\* NotebookError that initialize() takes for "not found"; every other
\* status outside 2xx raises NotebookError on fetch and save and
\* KernelError on the kernelspecs, session-list and session-create
\* requests; the request succeeds on 200, and on 201 for save and
\* session-create; every other 2xx status raises the error of the request
\* like a status outside 2xx.
StatusMapping ==
    /\ NonSuccessMapping
    /\ Responded =>
          LET accepted == IF ret.op \in {"save_notebook_content", "create_session"}
                          THEN {200, 201} ELSE {200}
          IN /\ ret.outcome = "ok" <=> ret.status \in accepted
             /\ ret.status \notin accepted =>
                   /\ RaisedError(IF ret.op \in NotebookEndpoints
                                  THEN "NotebookError" ELSE "KernelError")
                   /\ ret.status # 404 => ~NotFoundSignal

\* The fetch was answered with a 201 and raised NotebookError.
StatusMappingWitness ==
    /\ ret.op = "get_notebook_content"
    /\ ret.status = 201
    /\ RaisedError("NotebookError")
    /\ ret.list = <<"Failed to access notebook: 201">>

\* The save was answered with a 201 and succeeded.
StatusMappingSaveWitness ==
    /\ ret.op = "save_notebook_content"
    /\ ret.status = 201
    /\ ret.outcome = "ok"

\* ------------------------------------------------------------------------
\* A request of JupyterServerClient that fails below HTTP.  The five request
\* methods open `aiohttp.ClientSession()` themselves and catch nothing;
\* _make_request, which turns aiohttp.ClientError into
\* ServerConnectionError, is called by none of them.  A refused connection
\* raises aiohttp's ClientConnectorError, an expired timeout
\* asyncio.TimeoutError, a body that is not JSON ContentTypeError out of
\* `resp.json()` (the save reads no body).
TransportFailures(endpoint) ==
    {"ClientConnectorError", "TimeoutError"}
      \cup (IF endpoint = "save_notebook_content" THEN {}
            ELSE {"ContentTypeError"})

\* The exception that leaves the request method.
TransportError(failure) == failure

TransportFail ==
    /\ pc[1] = "request"
    /\ \E failure \in TransportFailures(op[1]) :
          ret' = [NoRet EXCEPT !.proc = 1, !.op = op[1], !.outcome = "raise",
                               !.msg = TransportError(failure),
                               !.trace = <<"transport">>]
    /\ pc' = [pc EXCEPT ![1] = "idle"]
    /\ UNCHANGED <<docVars, locked, waiters, op, arg, loc, trace, ghostVars,
                   kernelVars, nCalls>>

NextTransport ==
    \/ Respond
    \/ TransportFail

SpecTransport == InitStatus /\ [][NextTransport]_vars

\* C31: transport failures surface as ServerConnectionError.  A request of
\* the remote service client that fails at transport level reaches the
\* caller as a ServerConnectionError and as no other error.
TransportSurfacesAsServerConnectionError ==
    (ret.op \in Endpoints /\ ret.trace = <<"transport">>) =>
        /\ ret.outcome = "raise"
        /\ ret.msg = "ServerConnectionError"

\* ------------------------------------------------------------------------
\* The operation ended with an exception out of the kernel channel: the
\* last thing it did was to open the channel, or to send on it (a failing
\* receive records nothing more).
ChannelFailure(r) ==
    /\ r.outcome = "raise"
    /\ Len(r.trace) >= 2
    /\ r.trace[Len(r.trace) - 1] \in {"ws_connect", "ws_send"}

\* C32: channel failures surface as KernelError.  A failure of the kernel
\* channel during an execution (connect, send, receive, close by the peer)
\* leaves the tool operation as a KernelError, with no output list and no
\* error string returned.
ChannelFailuresAreKernelErrors ==
    ChannelFailure(ret) =>
        /\ ret.op \in ExecOps
        /\ ret.msg = "KernelError"
        /\ ret.list = <<>>

\* ------------------------------------------------------------------------
\* The server is started with KERNEL_NAME set or not, initialize() runs
\* once, as startup() runs it, against a service that advertises any
\* default and up to two of three kernelspecs, and cells are executed.
MaxKernelNameCalls == 2
ConfigKernelNames == {"", "ir"}
KernelspecNames == {"python3", "julia", "ir"}
AdvertisedDefaults == {"", "python3", "julia", "ghost"}

AllKernelspecReplies ==
    { [default |-> d, kernelspecs |-> ks] :
        d \in AdvertisedDefaults,
        ks \in {<<>>} \cup { <<a>> : a \in KernelspecNames }
                 \cup { ab \in KernelspecNames \X KernelspecNames :
                            ab[1] # ab[2] } }

InitKernelName ==
    /\ server \in {NoDoc} \cup {Doc(cs) : cs \in InitialCells}
    /\ notebook = NoDoc
    /\ ydoc = NoDoc
    /\ locked = FALSE
    /\ waiters = <<>>
    /\ pc = [p \in Procs |-> "idle"]
    /\ op = [p \in Procs |-> ""]
    /\ arg = [p \in Procs |-> NoArg]
    /\ loc = [p \in Procs |-> NoLoc]
    /\ trace = [p \in Procs |-> <<>>]
    /\ ret = NoRet
    /\ serial = server
    /\ failed = "no"
    /\ gone = NoGone
    /\ sessions = <<ForeignSession>>
    /\ available_kernels = <<>>
    /\ default_kernel = ""
    /\ kernel_name \in ConfigKernelNames
    /\ advertised = NoReply
    /\ channel = [p \in Procs |-> FALSE]
    /\ received = [p \in Procs |-> <<>>]
    /\ nExec = 0
    /\ nExt = 0
    /\ nCalls = 0

NextKernelName ==
    \/ nCalls = 0 /\ Call(1, "initialize", NoArg)
    \/ \E o \in ExecOps : \E a \in ArgsOf(o) :
          nCalls < MaxKernelNameCalls /\ Call(1, o, a)
    \/ InitializeKernelsWith(1, AllKernelspecReplies)
    \/ LoadOrCreateNotebook(1)
    \/ SaveCreatedNotebook(1)
    \/ InitializeYdoc(1)
    \/ RefreshFromServer(1)
    \/ AddCodeCellAndExecute(1)
    \/ ExecuteCell(1)
    \/ ExecuteOnServer(1)
    \/ GetSessions(1)
    \/ CreateSession(1)
    \/ WsConnect(1)
    \/ WsSend(1)
    \/ \E msg \in ToolMsgs(loc[1].msg_id) : Recv(1, msg, MaxRecv)
    \/ RecvFail(1)
    \/ ProcessOutputs(1)
    \/ SyncToYdoc(1)
    \/ SaveNotebook(1)

SpecKernelName == InitKernelName /\ [][NextKernelName]_vars

\* The name the resolution order gives for the configuration and for what
\* the service advertised (python3 when it advertised no kernelspec).
ResolvedKernelName ==
    LET ks == advertised.kernelspecs
        d == advertised.default
    IN IF kernel_name # "" THEN kernel_name
       ELSE IF d # "" /\ InSeq(d, ks) THEN d
       ELSE IF InSeq("python3", ks) THEN "python3"
       ELSE IF ks # <<>> THEN ks[1]
       ELSE "python3"

\* C33: kernel name resolution.  A session created for the notebook runs
\* the configured kernel when one is configured, else the advertised
\* default when it is among the available kernelspecs, else python3 when
\* that is available, else the first available kernelspec.
KernelNameResolution ==
    \A k \in 1..Len(sessions) :
        sessions[k].path = NotebookPath =>
            sessions[k].kernel.name = ResolvedKernelName

\* Nothing is configured, julia is advertised as the default next to
\* python3, and the session runs julia.
KernelNameResolutionWitness ==
    /\ kernel_name = ""
    /\ advertised = [default |-> "julia", kernelspecs |-> <<"python3", "julia">>]
    /\ Len(sessions) = 2
    /\ sessions[2].path = NotebookPath
    /\ sessions[2].kernel.name = "julia"

\* The configured kernel overrides the advertised default.
KernelNameConfiguredWitness ==
    /\ kernel_name = "ir"
    /\ advertised.default = "python3"
    /\ advertised.kernelspecs = <<"python3">>
    /\ Len(sessions) = 2
    /\ sessions[2].kernel.name = "ir"

\* The advertised default is unknown and python3 absent: the first
\* kernelspec is used.
KernelNameFirstWitness ==
    /\ kernel_name = ""
    /\ advertised = [default |-> "ghost", kernelspecs |-> <<"julia", "ir">>]
    /\ Len(sessions) = 2
    /\ sessions[2].kernel.name = "julia"

\* ------------------------------------------------------------------------
\* execute_on_server has passed its check of the index.
PastIndexCheck(p) ==
    pc[p] \in {"sessions", "create", "connect", "send", "recv", "process"}

\* C34: execute_on_server validates the index first.  It goes on to the
\* session lookup and the kernel channel only with a document loaded and
\* an index within its bounds, 0 <= cell_index < count, and then the code
\* it sends is the source of that cell; every other index raises
\* NotebookError before anything remote happens.
ExecuteOnServerValidatesFirst ==
    \A p \in Procs :
        PastIndexCheck(p) =>
            /\ notebook.present
            /\ 0 <= loc[p].cell_index
            /\ loc[p].cell_index < Len(notebook.cells)
            /\ pc[p] \in {"send", "recv", "process"} =>
                  loc[p].code = notebook.cells[loc[p].cell_index + 1]["source"]

\* ------------------------------------------------------------------------
\* A notebook as JupyterLab stored it after a display with a display_id:
\* the outputs carry `transient` at their top level, and the metadata of
\* the second has a key of that name of its own (output metadata is free
\* form in nbformat).
MaxPersistCalls == 3

DisplayOut ==
    [output_type |-> "display_data", data |-> [k \in {"text/plain"} |-> "1"],
     metadata |-> [transient |-> "kept"]]

PersistCells ==
    { <<new_markdown_cell("a"),
        [cell_type |-> "code", source |-> "b",
         outputs |-> <<WithTransient(StreamOut("t")),
                       WithTransient(DisplayOut)>>]>> }

InitPersist ==
    /\ server \in {NoDoc} \cup {Doc(cs) : cs \in PersistCells}
    /\ notebook = NoDoc
    /\ ydoc = NoDoc
    /\ locked = FALSE
    /\ waiters = <<>>
    /\ pc = [p \in Procs |-> "idle"]
    /\ op = [p \in Procs |-> ""]
    /\ arg = [p \in Procs |-> NoArg]
    /\ loc = [p \in Procs |-> NoLoc]
    /\ trace = [p \in Procs |-> <<>>]
    /\ ret = NoRet
    /\ serial = server
    /\ failed = "no"
    /\ gone = NoGone
    /\ sessions = <<ForeignSession>>
    /\ available_kernels = <<>>
    /\ default_kernel = ""
    /\ kernel_name = ConfigKernelName
    /\ advertised = NoReply
    /\ channel = [p \in Procs |-> FALSE]
    /\ received = [p \in Procs |-> <<>>]
    /\ nExec = 0
    /\ nExt = 0
    /\ nCalls = 0

NextPersist ==
    \/ \E o \in Ops : \E a \in ArgsOf(o) :
          nCalls < MaxPersistCalls /\ Call(1, o, a)
    \/ RefreshFromServer(1)
    \/ AddMarkdownCell(1)
    \/ AddCodeCellAndExecute(1)
    \/ ExecuteCell(1)
    \/ GetAllCells(1)
    \/ UpdateCell(1)
    \/ DeleteCell(1)
    \/ ClearAllOutputs(1)
    \/ ExecuteOnServer(1)
    \/ GetSessions(1)
    \/ CreateSession(1)
    \/ WsConnect(1)
    \/ WsSend(1)
    \/ \E msg \in AllMsgs(loc[1].msg_id) : Recv(1, msg, MaxRecv)
    \/ RecvFail(1)
    \/ ProcessOutputs(1)
    \/ SyncToYdoc(1)
    \/ SaveNotebook(1)
    \/ InitializeKernels(1)
    \/ LoadOrCreateNotebook(1)
    \/ SaveCreatedNotebook(1)
    \/ InitializeYdoc(1)

SpecPersist == InitPersist /\ [][NextPersist]_vars

\* The last step stored the canonical document on the service.
JustSaved ==
    \/ Succeeded(ret)
    \/ ret.outcome = "raise" /\ ret.msg = "ClientError"
    \/ ret.op = "initialize" /\ ret.outcome = "ok" /\ ret.status = 404

\* An output has a `transient` key inside its data or its metadata.
NestedTransient(o) ==
    \E f \in {"data", "metadata"} \cap DOMAIN o : "transient" \in DOMAIN o[f]

NoNestedTransient(cs) ==
    \A k \in 1..Len(cs) :
        "outputs" \in DOMAIN cs[k] =>
            \A j \in 1..Len(cs[k]["outputs"]) :
                ~NestedTransient(cs[k]["outputs"][j])

\* C35 as stated: the document a save sends has no `transient` key in any
\* output, at any depth.
NothingTransientAtAnyDepth ==
    JustSaved => NoTransient(server.cells) /\ NoNestedTransient(server.cells)

\* C35: nothing transient is persisted.  The document a save sends has no
\* `transient` key at the top level of any output, whether the output was
\* loaded from the service or produced by an execution of this operation.
NothingTransientPersisted ==
    JustSaved => NoTransient(server.cells)

\* A save stored outputs that had come with `transient` keys: those at the
\* top level are gone, the one inside the metadata is still there.
NothingTransientPersistedWitness ==
    /\ Succeeded(ret)
    /\ ~NoTransient(ret.base)
    /\ NoTransient(server.cells)
    /\ Len(server.cells) >= 2
    /\ Len(server.cells[2]["outputs"]) = 2
    /\ server.cells[2]["outputs"][2] = DisplayOut

\* A save stored the output of a display_data message, whose content had
\* a `transient` key.
KernelTransientDroppedWitness ==
    /\ Succeeded(ret)
    /\ ret.op = "execute_cell"
    /\ Len(ret.outputs) = 1
    /\ ret.outputs[1]["output_type"] = "display_data"
    /\ NoTransient(server.cells)

\* ------------------------------------------------------------------------
\* C36: the kernel channel is scoped to one execution.  A channel is open
\* only while an execution is between its connect and the end of its
\* receive loop, it is the channel that execution opened, and once the
\* execution has returned or raised no channel is open.
ChannelScopedToExecution ==
    /\ \A p \in Procs :
          /\ channel[p] <=> pc[p] \in {"send", "recv"}
          /\ channel[p] => /\ op[p] \in ExecOps
                           /\ InSeq("ws_connect", trace[p])
                           /\ loc[p].msg_id \in 1..nExec
    /\ \A p, q \in Procs :
          (channel[p] /\ channel[q]) => p = q
    /\ ret.outcome # "none" => ~channel[ret.proc]

\* The receive loop of an execution failed and its channel is closed.
ChannelScopedToExecutionWitness ==
    /\ ret.op = "execute_cell"
    /\ ret.outcome = "raise"
    /\ ret.msg = "KernelError"
    /\ Len(ret.trace) >= 2
    /\ ret.trace[Len(ret.trace) - 1] = "ws_send"
    /\ \A p \in Procs : ~channel[p]

\* A second execution has opened a channel of its own.
ChannelPerExecutionWitness ==
    \E p \in Procs : channel[p] /\ loc[p].msg_id = 2 /\ nExec = 2

\* ------------------------------------------------------------------------
\* Two coroutines invoke the operations while every step may fail; the
\* event loop resumes a waiter that release() has woken.
MaxReleaseCalls == 3

NextRelease ==
    \/ \E p \in Callers, o \in Ops : \E a \in ArgsOf(o) :
          nCalls < MaxReleaseCalls /\ Call(p, o, a)
    \/ \E p \in Callers : Wake(p)
    \/ \E p \in Callers : RefreshFromServer(p)
    \/ \E p \in Callers : AddMarkdownCell(p)
    \/ \E p \in Callers : AddCodeCellAndExecute(p)
    \/ \E p \in Callers : ExecuteCell(p)
    \/ \E p \in Callers : GetAllCells(p)
    \/ \E p \in Callers : UpdateCell(p)
    \/ \E p \in Callers : DeleteCell(p)
    \/ \E p \in Callers : ClearAllOutputs(p)
    \/ \E p \in Callers : ExecuteOnServer(p)
    \/ \E p \in Callers : GetSessions(p)
    \/ \E p \in Callers : CreateSession(p)
    \/ \E p \in Callers : WsConnect(p)
    \/ \E p \in Callers : WsSend(p)
    \/ \E p \in Callers : \E msg \in ToolMsgs(loc[p].msg_id) : Recv(p, msg, MaxRecv)
    \/ \E p \in Callers : RecvFail(p)
    \/ \E p \in Callers : ProcessOutputs(p)
    \/ \E p \in Callers : SyncToYdoc(p)
    \/ \E p \in Callers : SaveNotebook(p)
    \/ \E p \in Callers : InitializeKernels(p)
    \/ \E p \in Callers : LoadOrCreateNotebook(p)
    \/ \E p \in Callers : SaveCreatedNotebook(p)
    \/ \E p \in Callers : InitializeYdoc(p)

WakeStep == \E p \in Callers : Wake(p)

SpecRelease == Init /\ [][NextRelease]_vars /\ WF_vars(WakeStep)

\* The operation that returned in the last step raised, or returned an
\* error string.
Failed(r) ==
    \/ r.outcome = "raise"
    \/ r.outcome = "ok" /\ r.op \in MutatingOps /\ IsErrorResult(r)

\* C37: the lock is always released on failure.  When an operation raises
\* at any step of its critical section, or returns early with an error
\* string, the lock is free and nobody is in a critical section; and a
\* waiter at the head of the queue of a free lock acquires it.
LockReleasedOnFailure ==
    /\ [](Failed(ret) =>
             /\ ~locked
             /\ \A p \in Procs : ~InCriticalSection(p))
    /\ \A p \in Callers :
          (pc[p] = "wait" /\ ~locked /\ Head(waiters) = p)
              ~> InCriticalSection(p)

\* The save of one operation failed while another one was waiting.
LockReleasedOnFailureWitness ==
    /\ ret.outcome = "raise"
    /\ ret.msg = "NotebookError"
    /\ Len(ret.trace) >= 2
    /\ ret.trace[Len(ret.trace) - 1] = "save"
    /\ ~locked
    /\ \E q \in Callers : pc[q] = "wait" /\ waiters = <<q>>

\* After two operations had failed a third one got the lock.
LockReleasedAfterFailuresWitness ==
    /\ failed # "no"
    /\ nCalls = 3
    /\ locked
    /\ \E p \in Callers : InCriticalSection(p) /\ loc[p].waited

\* ------------------------------------------------------------------------
\* One caller executes cells one after another while the channel delivers
\* any message: of this request, of an earlier one, of somebody else's.
MaxAttributionCalls == 3

\* An output or the reply, with every parent header there can be.
AttributionMsgs(msg_id) ==
    { KernelMsg(t, par, "t") : t \in {"stream", "execute_reply"},
                               par \in (-1)..msg_id }

NextAttribution ==
    \/ \E o \in {"initialize", "execute_cell"} : \E a \in ArgsOf(o) :
          nCalls < MaxAttributionCalls /\ Call(1, o, a)
    \/ RefreshFromServer(1)
    \/ ExecuteCell(1)
    \/ ExecuteOnServer(1)
    \/ GetSessions(1)
    \/ CreateSession(1)
    \/ WsConnect(1)
    \/ WsSend(1)
    \/ \E msg \in AttributionMsgs(loc[1].msg_id) : Recv(1, msg, MaxRecvKernel)
    \/ RecvFail(1)
    \/ ProcessOutputs(1)
    \/ SyncToYdoc(1)
    \/ SaveNotebook(1)
    \/ InitializeKernels(1)
    \/ LoadOrCreateNotebook(1)
    \/ SaveCreatedNotebook(1)
    \/ InitializeYdoc(1)

SpecAttribution == Init /\ [][NextAttribution]_vars

\* The request a message was produced for (-1: none given).
ParentOf(msg) ==
    IF "msg_id" \in DOMAIN msg.parent_header THEN msg.parent_header.msg_id
    ELSE -1

\* C38: no cross-execution attribution.  The nExec-th execution carries an
\* id of its own; the outputs it collects are those of the messages
\* produced for it and of no earlier or other request, and only its own
\* execute_reply ends its loop.
NoCrossExecutionAttribution ==
    \A p \in Procs :
        pc[p] \in {"send", "recv", "process"} =>
            LET mine == SelectSeq(received[p], LAMBDA m : ParentOf(m) = nExec)
                outs == SelectSeq(mine,
                            LAMBDA m : m.header.msg_type \in OutputTypes)
                n == Len(received[p])
            IN /\ loc[p].msg_id = nExec
               /\ Len(loc[p].raw) = Len(outs)
               /\ \A k \in 1..Len(outs) :
                     /\ loc[p].raw[k]["output_type"] = outs[k].header.msg_type
                     /\ ParentOf(outs[k]) \notin (-1)..(nExec - 1)
               /\ pc[p] = "recv" =>
                     \A k \in 1..Len(mine) :
                         mine[k].header.msg_type # "execute_reply"
               /\ pc[p] = "process" =>
                     /\ n > 0
                     /\ ParentOf(received[p][n]) = nExec
                     /\ received[p][n].header.msg_type = "execute_reply"

\* The second execution read a late stream message and the execute_reply
\* of the first one, went on, and ended on its own reply with no output.
NoCrossExecutionAttributionWitness ==
    \E p \in Procs :
        /\ pc[p] = "process"
        /\ nExec = 2
        /\ Len(received[p]) = 3
        /\ received[p][1].header.msg_type = "stream"
        /\ ParentOf(received[p][1]) = 1
        /\ received[p][2].header.msg_type = "execute_reply"
        /\ ParentOf(received[p][2]) = 1
        /\ loc[p].raw = <<>>

\* ------------------------------------------------------------------------
\* C39: save is whole-document last-writer-wins.  After the save of a
\* mutating operation the service stores the canonical document, which is
\* what the operation refreshed at its start with its own mutation applied,
\* whatever anybody wrote to the service in between.
SaveIsLastWriterWins ==
    Succeeded(ret) =>
        /\ server.present
        /\ server = notebook
        /\ server.cells = SerialApply(ret.op, ret.arg, ret.outputs, ret.base)

\* The operation refreshed the notebook as it was stored at first, an
\* external party then wrote to the service, and the operation saved: the
\* external write is gone.
SaveIsLastWriterWinsWitness ==
    /\ Succeeded(ret)
    /\ nExt = 1
    /\ ret.base \in InitialCells
    /\ ret.op = "update_cell"
    /\ Len(server.cells) = 2
    /\ \A k \in 1..2 : server.cells[k]["source"] # "x"

\* The same while a kernel execution was in flight.
SaveAfterExecutionWitness ==
    /\ Succeeded(ret)
    /\ nExt = 1
    /\ ret.base \in InitialCells
    /\ ret.op = "execute_cell"
    /\ Len(server.cells) = 2

\* ------------------------------------------------------------------------
\* The step in which the refresh of coroutine p ends without going on to
\* the body of its operation.
RefreshFails(p) == pc[p] = "refresh" /\ pc'[p] \notin {"refresh", "body"}

\* C40: a failed refresh changes nothing.  When refresh_from_server fails,
\* the canonical document, the mirror and the stored notebook are what they
\* were before the call, the operation has done nothing but acquire, refresh
\* and release (no mutation, no sync, no save), and the caller gets the
\* NotebookError.
FailedRefreshChangesNothing ==
    [][\A p \in Procs :
          RefreshFails(p) =>
              /\ notebook' = notebook
              /\ ydoc' = ydoc
              /\ server' = server
              /\ ret'.proc = p
              /\ ret'.outcome = "raise"
              /\ ret'.msg = "NotebookError"
              /\ ret'.trace = <<"acquire", "refresh_from_server", "release">>]_vars

\* A refresh answered 404 while a document with cells is held in memory
\* and mirrored.
FailedRefreshChangesNothingWitness ==
    /\ ret.outcome = "raise"
    /\ ret.msg = "NotebookError"
    /\ ret.trace = <<"acquire", "refresh_from_server", "release">>
    /\ ~server.present
    /\ notebook.present
    /\ notebook.cells # <<>>
    /\ ydoc = notebook

\* A refresh answered another failure status although the notebook is
\* stored.
FailedRefreshOtherStatusWitness ==
    /\ ret.outcome = "raise"
    /\ ret.msg = "NotebookError"
    /\ ret.trace = <<"acquire", "refresh_from_server", "release">>
    /\ server.present
    /\ notebook.present
    /\ notebook.cells # <<>>
    /\ ydoc = notebook
====
